---- MODULE Spec2Model ----
(***************************************************************************)
(* Verification model of the graph-layout pipeline of the research         *)
(* dashboard: the CSV validation filters, the graph builders of            *)
(* BaseNetwork, AuthorCollabNetwork, EnhancedCitationNetworkV1 and         *)
(* EnhancedCitationNetworkV2, importance pruning, community detection,     *)
(* the load / draw lifecycle of a view and the force simulation's alpha.   *)
(*                                                                         *)
(* Strings are sequences of one-character strings, so that trim, parseInt, *)
(* join and split are computed character by character.  A field the CSV    *)
(* has no column for is the JavaScript value undefined, written Undefined. *)
(***************************************************************************)
EXTENDS Integers, Sequences, FiniteSets, TLC

VARIABLES
    view,            \* which component this instance is
    maxNodes,        \* the maxNodes prop of the instance
    source,          \* the file the fetch reads: [text, rows]
    mounted,         \* the component is mounted
    inflight,        \* loads started and not yet settled: the maxNodes each captured
    loading,         \* useState loading
    error,           \* useState error ("" or a message)
    data,            \* useState data: [nodes, links]
    displayedNodes,  \* useState displayedNodes
    displayedLinks,  \* useState displayedLinks
    institutionIds,  \* useState institutionIds (AuthorCollabNetwork)
    sim,             \* the force simulation of the draw effect
    drags,           \* node indices with an active drag gesture
    pinned,          \* node indices whose fx, fy are set
    layout,          \* x, y, fx, fy of the nodes of the simulation
    enableZoom,      \* the enableZoom prop of the instance
    zoom,            \* the zoom behaviour of the <svg> and the container's transform
    highlightedId,   \* useState highlightedId (EnhancedCitationNetworkV1)
    hover,           \* the element under the pointer and the highlighted elements
    placement,       \* the placement of the year circles (EnhancedCitationNetworkV1)
    baseNetworkConfig,   \* useState baseNetworkConfig of the networks page
    authorCollabConfig   \* useState authorCollabConfig of the networks page

\* The state of the networks page
pageVars == <<baseNetworkConfig, authorCollabConfig>>

\* The state of one view
viewVars == <<view, maxNodes, source, mounted, inflight, loading, error, data,
              displayedNodes, displayedLinks, institutionIds, sim, drags, pinned,
              layout, enableZoom, zoom, highlightedId, hover, placement>>

vars == <<view, maxNodes, source, mounted, inflight, loading, error, data,
          displayedNodes, displayedLinks, institutionIds, sim, drags, pinned,
          layout, enableZoom, zoom, highlightedId, hover, placement,
          baseNetworkConfig, authorCollabConfig>>

-----------------------------------------------------------------------------
(* const name = v; body: the value is computed once and then named *)

With(v, Body(_)) == Body(v)

-----------------------------------------------------------------------------
(* Strings *)

Undefined == <<"undefined">>

IsUndefined(s) == s = Undefined

\* UTF-16 code unit of the characters the inputs use.
Code(c) ==
    CASE c = " " -> 32
      [] c = "-" -> 45
      [] c = "0" -> 48 [] c = "1" -> 49 [] c = "2" -> 50 [] c = "3" -> 51
      [] c = "4" -> 52 [] c = "5" -> 53 [] c = "6" -> 54 [] c = "7" -> 55
      [] c = "8" -> 56 [] c = "9" -> 57
      [] c = "_" -> 95
      [] c = "a" -> 97 [] c = "b" -> 98 [] c = "c" -> 99 [] c = "d" -> 100
      [] c = "p" -> 112 [] c = "q" -> 113 [] c = "r" -> 114 [] c = "s" -> 115
      [] c = "x" -> 120 [] c = "y" -> 121
      [] OTHER -> 200

IsSpace(c) == c = " "

IsDigit(c) == Code(c) >= 48 /\ Code(c) <= 57

RECURSIVE TrimStart(_)
TrimStart(s) ==
    IF s # <<>> /\ IsSpace(Head(s)) THEN TrimStart(Tail(s)) ELSE s

RECURSIVE TrimEnd(_)
TrimEnd(s) ==
    IF s # <<>> /\ IsSpace(s[Len(s)]) THEN TrimEnd(SubSeq(s, 1, Len(s) - 1)) ELSE s

\* String.prototype.trim
Trim(s) == TrimEnd(TrimStart(s))

\* row.field?.trim(): undefined stays undefined
OptTrim(s) == IF IsUndefined(s) THEN Undefined ELSE Trim(s)

\* JavaScript truthiness of a string or undefined
Truthy(s) == ~IsUndefined(s) /\ s # <<>>

\* a || b on strings
OrElse(a, b) == IF Truthy(a) THEN a ELSE b

\* The value of a number: nan = TRUE is NaN.
NaN == [nan |-> TRUE, v |-> 0]

Num(n) == [nan |-> FALSE, v |-> n]

RECURSIVE DigitsValue(_, _)
DigitsValue(s, acc) ==
    IF s # <<>> /\ IsDigit(Head(s))
    THEN DigitsValue(Tail(s), 10 * acc + (Code(Head(s)) - 48))
    ELSE acc

\* parseInt(s, 10): leading white space, an optional sign, then the leading digits.
Signed(neg, u) ==
    IF u = <<>> \/ ~IsDigit(Head(u)) THEN NaN
    ELSE Num(IF neg THEN 0 - DigitsValue(u, 0) ELSE DigitsValue(u, 0))

ParseInt(s) ==
    With(TrimStart(s), LAMBDA t :
        IF t # <<>> /\ Head(t) = "-" THEN Signed(TRUE, Tail(t)) ELSE Signed(FALSE, t))

\* a < b on strings: by code units
RECURSIVE StrLess(_, _)
StrLess(a, b) ==
    IF b = <<>> THEN FALSE
    ELSE IF a = <<>> THEN TRUE
    ELSE IF Code(Head(a)) # Code(Head(b)) THEN Code(Head(a)) < Code(Head(b))
    ELSE StrLess(Tail(a), Tail(b))

-----------------------------------------------------------------------------
(* Arrays *)

Range(s) == {s[i] : i \in 1..Len(s)}

Contains(s, x) == \E i \in 1..Len(s) : s[i] = x

\* Array.prototype.filter
FilterSeq(s, Keep(_)) == SelectSeq(s, Keep)

\* Array.prototype.slice(0, end): a negative end counts from the end of the array.
SliceTo(s, end) ==
    LET e == IF end < 0 THEN (IF Len(s) + end < 0 THEN 0 ELSE Len(s) + end)
             ELSE (IF end > Len(s) THEN Len(s) ELSE end)
    IN  SubSeq(s, 1, e)

Min(a, b) == IF a < b THEN a ELSE b

Max(a, b) == IF a > b THEN a ELSE b

\* An insertion that puts the later of two equal keys first (not what the code does)
RECURSIVE InsertDescLatestFirst(_, _, _)
InsertDescLatestFirst(sorted, i, keys) ==
    IF sorted = <<>> THEN <<i>>
    ELSE IF keys[Head(sorted)] > keys[i]
         THEN <<Head(sorted)>> \o InsertDescLatestFirst(Tail(sorted), i, keys)
         ELSE <<i>> \o sorted

\* Array.prototype.sort((a, b) => key(b) - key(a)) on the indices of the array:
\* descending by key, equal keys keep their order (the sort is stable).
RECURSIVE InsertDesc(_, _, _)
InsertDesc(sorted, i, keys) ==
    IF sorted = <<>> THEN <<i>>
    ELSE IF keys[Head(sorted)] >= keys[i]
         THEN <<Head(sorted)>> \o InsertDesc(Tail(sorted), i, keys)
         ELSE <<i>> \o sorted

RECURSIVE SortIdxFrom(_, _, _)
SortIdxFrom(i, acc, keys) ==
    IF i > Len(keys) THEN acc ELSE SortIdxFrom(i + 1, InsertDesc(acc, i, keys), keys)

SortDesc(s, Key(_)) ==
    With(SortIdxFrom(1, <<>>, [i \in 1..Len(s) |-> Key(s[i])]), LAMBDA perm :
        [j \in 1..Len(s) |-> s[perm[j]]])

\* new Set(...) / Array.from(set): the distinct elements in first-insertion order
RECURSIVE DedupFrom(_, _)
DedupFrom(s, acc) ==
    IF s = <<>> THEN acc
    ELSE DedupFrom(Tail(s), IF Contains(acc, Head(s)) THEN acc ELSE Append(acc, Head(s)))

Dedup(s) == DedupFrom(s, <<>>)

\* Array.prototype.find: the index of the first element satisfying P, 0 when none
FindIndex(s, P(_)) ==
    IF \E i \in 1..Len(s) : P(s[i])
    THEN CHOOSE i \in 1..Len(s) : P(s[i]) /\ \A j \in 1..(i - 1) : ~P(s[j])
    ELSE 0

Count(s, P(_)) == Cardinality({i \in 1..Len(s) : P(s[i])})

-----------------------------------------------------------------------------
(* Citation rows: validation and the citation graph of BaseNetwork and     *)
(* EnhancedCitationNetworkV1                                               *)

\* The validData filter of BaseNetwork (the same filter is validCitationData in V1).
ValidCitationRow(row) ==
    LET citingId == OptTrim(row.citing_paperid)
        citedId == OptTrim(row.cited_paperid)
        citingYear == ParseInt(OrElse(OptTrim(row.year), <<>>))
        citedYear == ParseInt(OrElse(OptTrim(row.ref_year), <<>>))
        yearDiff == ParseInt(OrElse(OptTrim(row.year_diff), <<"0">>))
    IN  /\ Truthy(citingId) /\ Truthy(citedId)
        /\ ~(\/ citingYear.nan \/ citedYear.nan
             \/ citingYear.v < 2020 \/ citingYear.v > 2025
             \/ citedYear.v < 2020 \/ citedYear.v > 2025)
        /\ ~(yearDiff.nan \/ yearDiff.v < 0 - 5 \/ yearDiff.v > 10)

\* paperIds: the trimmed ids of the valid rows, citing before cited, first insertion kept
RECURSIVE RowIds(_)
RowIds(rows) ==
    IF rows = <<>> THEN <<>>
    ELSE <<Trim(Head(rows).citing_paperid), Trim(Head(rows).cited_paperid)>>
         \o RowIds(Tail(rows))

PaperIds(validData) == Dedup(RowIds(validData))

\* One node of the citation graph: the map callback over paperIds.
CitationNode(id, validData) ==
    LET IsCited(row) == Trim(row.cited_paperid) = id
        IsCiting(row) == Trim(row.citing_paperid) = id
    IN  With(FindIndex(validData, IsCiting), LAMBDA citing :
        With(FindIndex(validData, IsCited), LAMBDA cited :
            [id |-> Trim(id),
             publish_year |-> IF citing # 0 THEN ParseInt(Trim(validData[citing].year))
                              ELSE IF cited # 0 THEN ParseInt(Trim(validData[cited].ref_year))
                              ELSE Num(2020),
             citation_count |-> Count(validData, IsCited)]))

CitationNodes(validData) ==
    With(PaperIds(validData), LAMBDA ids :
        [i \in 1..Len(ids) |-> CitationNode(ids[i], validData)])

\* One link per valid row.  row.year_diff.trim() throws a TypeError when the
\* column is missing: LinkThrows.
LinkThrows(validData) == \E i \in 1..Len(validData) : IsUndefined(validData[i].year_diff)

CitationLink(row) ==
    [source |-> Trim(row.citing_paperid),
     target |-> Trim(row.cited_paperid),
     value |-> 1,
     citing_year |-> ParseInt(Trim(row.year)),
     cited_year |-> ParseInt(Trim(row.ref_year)),
     year_diff |-> ParseInt(Trim(row.year_diff))]

CitationLinks(validData) == [i \in 1..Len(validData) |-> CitationLink(validData[i])]

CitationCount(node) == node.citation_count

NodeIds(nodes) == {nodes[i].id : i \in 1..Len(nodes)}

KeepAllNodes(nodes, n) == nodes

LimitWithoutFallback(nodes, n) ==
    SliceTo(SortDesc(nodes, CitationCount), Min(n, Len(nodes)))

\* sortedNodes / limitedNodes / finalNodes of BaseNetwork and V1
LimitByCitations(nodes, n) ==
    With(SortDesc(nodes, CitationCount), LAMBDA sortedNodes :
    With(SliceTo(sortedNodes, Min(n, Len(sortedNodes))), LAMBDA limitedNodes :
        IF Len(limitedNodes) > 0 THEN limitedNodes ELSE SliceTo(sortedNodes, 1)))

\* filteredLinks: the links with both endpoints in the display list
FilterLinks(links, finalNodes) ==
    With(NodeIds(finalNodes), LAMBDA limitedNodeIds :
        LET Kept(link) == link.source \in limitedNodeIds /\ link.target \in limitedNodeIds
        IN  FilterSeq(links, Kept))

\* The body of BaseNetwork's fetchAndParseData after the text has arrived.
BaseBuild(rows, n) ==
    With(FilterSeq(rows, ValidCitationRow), LAMBDA validData :
    With(CitationNodes(validData), LAMBDA nodes :
        IF LinkThrows(validData)
        THEN [threw |-> TRUE, nodes |-> <<>>, links |-> <<>>,
              finalNodes |-> <<>>, filteredLinks |-> <<>>]
        ELSE With(CitationLinks(validData), LAMBDA links :
             With(LimitByCitations(nodes, n), LAMBDA finalNodes :
                 [threw |-> FALSE, nodes |-> nodes, links |-> links,
                  finalNodes |-> finalNodes,
                  filteredLinks |-> FilterLinks(links, finalNodes)]))))

-----------------------------------------------------------------------------
(* Affiliation rows: the author / paper graph of AuthorCollabNetwork       *)

\* The validData filter of AuthorCollabNetwork.
ValidAffilRow(row) ==
    /\ Truthy(OptTrim(row.paperid))
    /\ Truthy(OptTrim(row.authorid))
    /\ Truthy(OptTrim(row.institutionid))
    /\ Truthy(OptTrim(row.author_position))

\* A Map<string, string[]> is the sequence of its entries [k, v] in insertion order.
MapHas(map, k) == \E i \in 1..Len(map) : map[i].k = k

MapIndex(map, k) == CHOOSE i \in 1..Len(map) : map[i].k = k

\* if (!map.has(k)) map.set(k, []); if (!map.get(k).includes(x)) map.get(k).push(x)
MapPushDistinct(map, k, x) ==
    IF ~MapHas(map, k) THEN Append(map, [k |-> k, v |-> <<x>>])
    ELSE LET i == MapIndex(map, k)
         IN  IF Contains(map[i].v, x) THEN map
             ELSE [map EXCEPT ![i].v = Append(@, x)]

RECURSIVE AuthorPaperMap(_, _)
AuthorPaperMap(validData, map) ==
    IF validData = <<>> THEN map
    ELSE AuthorPaperMap(Tail(validData),
             MapPushDistinct(map, Trim(Head(validData).authorid),
                             Trim(Head(validData).paperid)))

RECURSIVE PaperAuthorMap(_, _)
PaperAuthorMap(validData, map) ==
    IF validData = <<>> THEN map
    ELSE PaperAuthorMap(Tail(validData),
             MapPushDistinct(map, Trim(Head(validData).paperid),
                             Trim(Head(validData).authorid)))

\* `author_${id}` and `paper_${id}`: the prefix is one symbol of the string
AuthorKey(authorId) == <<"author_">> \o authorId

PaperKey(paperId) == <<"paper_">> \o paperId

AuthorNode(entry, validData) ==
    LET IsAuthor(row) == Trim(row.authorid) = entry.k
    IN  With(FindIndex(validData, IsAuthor), LAMBDA firstRecord :
            [id |-> AuthorKey(entry.k),
             type |-> "author",
             authorid |-> entry.k,
             institutionid |-> IF firstRecord = 0 THEN <<"default">>
                               ELSE OrElse(Trim(validData[firstRecord].institutionid),
                                           <<"default">>),
             paper_count |-> Len(entry.v)])

PaperNode(entry) ==
    [id |-> PaperKey(entry.k),
     type |-> "paper",
     paperid |-> entry.k,
     author_count |-> Len(entry.v)]

CollabNodes(validData) ==
    With(AuthorPaperMap(validData, <<>>), LAMBDA authorPaperMap :
    With(PaperAuthorMap(validData, <<>>), LAMBDA paperAuthorMap :
        [i \in 1..Len(authorPaperMap) |-> AuthorNode(authorPaperMap[i], validData)]
        \o [i \in 1..Len(paperAuthorMap) |-> PaperNode(paperAuthorMap[i])]))

AuthorPaperLink(row) ==
    [source |-> AuthorKey(Trim(row.authorid)),
     target |-> PaperKey(Trim(row.paperid)),
     type |-> "author-paper",
     paperid |-> Trim(row.paperid),
     author_position |-> Trim(row.author_position),
     value |-> 1]

AuthorPaperLinks(validData) ==
    [i \in 1..Len(validData) |-> AuthorPaperLink(validData[i])]

\* [a1, a2].sort().join('-')
PairKey(a1, a2) ==
    IF StrLess(a2, a1) THEN a2 \o <<"-">> \o a1 ELSE a1 \o <<"-">> \o a2

\* key.split('-'): the pieces between the '-' characters
RECURSIVE SplitFrom(_, _, _)
SplitFrom(s, piece, pieces) ==
    IF s = <<>> THEN Append(pieces, piece)
    ELSE IF Head(s) = "-" THEN SplitFrom(Tail(s), <<>>, Append(pieces, piece))
    ELSE SplitFrom(Tail(s), Append(piece, Head(s)), pieces)

Split(s) == SplitFrom(s, <<>>, <<>>)

\* The pairs (i < j) of one paper's author list, in loop order, as [key, paperId].
PairsOfPaper(entry) ==
    LET n == Len(entry.v)
        RECURSIVE Pairs(_, _)
        Pairs(i, j) ==
            IF i > n THEN <<>>
            ELSE IF j > n THEN Pairs(i + 1, i + 2)
            ELSE <<[key |-> PairKey(entry.v[i], entry.v[j]), paperId |-> entry.k]>>
                 \o Pairs(i, j + 1)
    IN  Pairs(1, 2)

RECURSIVE AllPairs(_)
AllPairs(paperAuthorMap) ==
    IF paperAuthorMap = <<>> THEN <<>>
    ELSE PairsOfPaper(Head(paperAuthorMap)) \o AllPairs(Tail(paperAuthorMap))

\* authorCollabMap: entries [k, count, papers]; papers is a Set, kept as the
\* sequence of its distinct members in insertion order.
CollabAdd(map, pair) ==
    IF ~MapHas(map, pair.key)
    THEN Append(map, [k |-> pair.key, count |-> 1, papers |-> <<pair.paperId>>])
    ELSE LET i == MapIndex(map, pair.key)
         IN  [map EXCEPT ![i].count = @ + 1,
                         ![i].papers = IF Contains(@, pair.paperId) THEN @
                                       ELSE Append(@, pair.paperId)]

RECURSIVE AuthorCollabMap(_, _)
AuthorCollabMap(pairs, map) ==
    IF pairs = <<>> THEN map
    ELSE AuthorCollabMap(Tail(pairs), CollabAdd(map, Head(pairs)))

\* const [a1, a2] = key.split('-'): a missing second piece is undefined
AuthorAuthorLink(entry) ==
    With(Split(entry.k), LAMBDA pieces :
        [source |-> AuthorKey(pieces[1]),
         target |-> AuthorKey(IF Len(pieces) >= 2 THEN pieces[2] ELSE Undefined),
         type |-> "author-author",
         collaboration_count |-> entry.count,
         paper_ids |-> entry.papers])

AuthorAuthorLinks(validData) ==
    With(AuthorCollabMap(AllPairs(PaperAuthorMap(validData, <<>>)), <<>>),
         LAMBDA authorCollabMap :
        [i \in 1..Len(authorCollabMap) |-> AuthorAuthorLink(authorCollabMap[i])])

\* The largest power of two below q, from k
RECURSIVE PowerBelow(_, _)
PowerBelow(q, k) == IF 2 * k < q THEN PowerBelow(q, 2 * k) ELSE k

\* Math.floor(maxNodes * 0.7) in IEEE-754 doubles.  The double 0.7 is
\* 0.7 - 0.4 * 2^-53, so the exact product is 0.7 n - 0.4 n * 2^-53.  When 7 n is no
\* multiple of 10 the rounded product keeps the integer part of 0.7 n.  When
\* n = 10 q / 7 > 0 the product lies 4 q / 7 * 2^-53 below the integer q, and with
\* k < q <= 2 k, k a power of two, the doubles below q are k * 2^-52 apart: the
\* product rounds to q when 4 q <= 7 k (a tie goes to q, whose significand is even)
\* and to a double below q otherwise.
AuthorQuota(n) ==
    With((7 * n) \div 10, LAMBDA q :
        IF n > 0 /\ n % 10 = 0 /\ 4 * q > 7 * PowerBelow(q, 1) THEN q - 1 ELSE q)

PaperQuota(n) == n - AuthorQuota(n)

PaperCount(node) == node.paper_count

AuthorCount(node) == node.author_count

IsAuthorNode(node) == node.type = "author"

IsPaperNode(node) == node.type = "paper"

\* limitedAuthors / limitedPapers / finalNodes of AuthorCollabNetwork
LimitByQuota(nodes, n) ==
    LET sortedAuthors == SortDesc(FilterSeq(nodes, IsAuthorNode), PaperCount)
        sortedPapers == SortDesc(FilterSeq(nodes, IsPaperNode), AuthorCount)
    IN  SliceTo(sortedAuthors, AuthorQuota(n)) \o SliceTo(sortedPapers, PaperQuota(n))

\* The body of AuthorCollabNetwork's fetchAndParseData after the text has arrived.
CollabBuild(rows, n) ==
    With(FilterSeq(rows, ValidAffilRow), LAMBDA validData :
    With(CollabNodes(validData), LAMBDA nodes :
    With(AuthorPaperLinks(validData) \o AuthorAuthorLinks(validData), LAMBDA allLinks :
    With(LimitByQuota(nodes, n), LAMBDA finalNodes :
        [threw |-> FALSE, nodes |-> nodes, links |-> allLinks,
         finalNodes |-> finalNodes,
         filteredLinks |-> FilterLinks(allLinks, finalNodes)]))))

-----------------------------------------------------------------------------
(* EnhancedCitationNetworkV2: the nodeMap builder and detectCommunities    *)

MAX_NODES == 1000

\* The validRows filter of EnhancedCitationNetworkV2.
ValidV2Row(row) ==
    /\ Truthy(OptTrim(row.citing_paperid))
    /\ Truthy(OptTrim(row.cited_paperid))
    /\ Truthy(OptTrim(row.year))
    /\ Truthy(OptTrim(row.ref_year))

\* parseInt(s, 10) || s: the number unless it is NaN or 0, else the string
NumOrStr(s) ==
    With(ParseInt(s), LAMBDA n :
        IF n.nan \/ n.v = 0 THEN [num |-> FALSE, v |-> 0, s |-> s]
        ELSE [num |-> TRUE, v |-> n.v, s |-> <<>>])

\* parseInt(s, 10) || 0
NumOrZero(s) == With(ParseInt(s), LAMBDA n : IF n.nan THEN Num(0) ELSE n)

V2Node(rawId, yearField) ==
    [id |-> Trim(rawId),
     publish_year |-> NumOrStr(Trim(yearField)),
     citation_count |-> 0,
     institution |-> "Unknown",
     topic |-> "Computer Science"]

\* One step of validRows.forEach over nodeMap, a Map keyed by the row's raw ids.
\* if (!nodeMap.has(rawId)) nodeMap.set(rawId, {...})
NodeMapEnsure(nodeMap, rawId, yearField) ==
    IF MapHas(nodeMap, rawId) THEN nodeMap
    ELSE Append(nodeMap, [k |-> rawId, v |-> V2Node(rawId, yearField)])

\* nodeMap.get(rawId).citation_count += 1
NodeMapCount(nodeMap, rawId) ==
    [nodeMap EXCEPT ![MapIndex(nodeMap, rawId)].v.citation_count = @ + 1]

NodeMapStep(nodeMap, row) ==
    NodeMapCount(NodeMapEnsure(NodeMapEnsure(nodeMap, row.citing_paperid, row.year),
                               row.cited_paperid, row.ref_year),
                 row.cited_paperid)

RECURSIVE NodeMap(_, _)
NodeMap(validRows, nodeMap) ==
    IF validRows = <<>> THEN nodeMap
    ELSE NodeMap(Tail(validRows), NodeMapStep(nodeMap, Head(validRows)))

MapValues(map) == [i \in 1..Len(map) |-> map[i].v]

\* relevance = min(1, max(0, 1 - |year_diff / 10|)), in tenths; NaN stays NaN
Relevance(yearDiff) ==
    IF yearDiff.nan THEN NaN
    ELSE LET a == IF yearDiff.v < 0 THEN 0 - yearDiff.v ELSE yearDiff.v
         IN  Num(IF a >= 10 THEN 0 ELSE 10 - a)

V2Link(row) ==
    [source |-> Trim(row.citing_paperid),
     target |-> Trim(row.cited_paperid),
     value |-> 1,
     citing_year |-> NumOrZero(Trim(row.year)),
     cited_year |-> NumOrZero(Trim(row.ref_year)),
     year_diff |-> NumOrZero(Trim(row.year_diff)),
     citation_type |-> "Direct",
     relevance |-> Relevance(ParseInt(Trim(row.year_diff)))]

\* validLinks: a row whose year_diff is undefined throws inside the map callback and
\* is dropped; then the links whose two ids are keys of nodeMap are kept.
V2Links(validRows, nodeMap) ==
    LET Built(row) == ~IsUndefined(row.year_diff)
        Known(link) == MapHas(nodeMap, link.source) /\ MapHas(nodeMap, link.target)
    IN  With(FilterSeq(validRows, Built), LAMBDA built :
            FilterSeq([i \in 1..Len(built) |-> V2Link(built[i])], Known))

\* limitedNodes: Array.from(nodeMap.values()).slice(0, MAX_NODES)
V2LimitNodes(nodes, budget) == SliceTo(nodes, budget)

\* limitedLinks: limitedNodes.some(node => node.id === sourceId) && ... targetId
V2LimitLinks(links, limitedNodes) ==
    LET Kept(link) == /\ \E i \in 1..Len(limitedNodes) : limitedNodes[i].id = link.source
                      /\ \E i \in 1..Len(limitedNodes) : limitedNodes[i].id = link.target
    IN  FilterSeq(links, Kept)

\* The body of loadAndProcessCsv after the text has arrived.
V2Threw(message) ==
    [threw |-> TRUE, message |-> message, nodes |-> <<>>, links |-> <<>>,
     finalNodes |-> <<>>, filteredLinks |-> <<>>]

V2Build(text, rows) ==
    With(FilterSeq(rows, ValidV2Row), LAMBDA validRows :
        IF ~text THEN V2Threw("CSV file content is empty")
        ELSE IF Len(validRows) = 0 THEN V2Threw("No valid citation data rows")
        ELSE With(NodeMap(validRows, <<>>), LAMBDA nodeMap :
             With(V2Links(validRows, nodeMap), LAMBDA validLinks :
             With(V2LimitNodes(MapValues(nodeMap), MAX_NODES), LAMBDA limitedNodes :
                 [threw |-> FALSE, message |-> "",
                  nodes |-> MapValues(nodeMap), links |-> validLinks,
                  finalNodes |-> limitedNodes,
                  filteredLinks |-> V2LimitLinks(validLinks, limitedNodes)]))))

RECURSIVE NeighboursDirected(_, _)
NeighboursDirected(id, links) ==
    IF links = <<>> THEN <<>>
    ELSE (IF Head(links).source = id THEN <<Head(links).target>> ELSE <<>>)
         \o NeighboursDirected(id, Tail(links))

\* adjacency: for every node id the neighbours pushed by links.forEach, in order
RECURSIVE Neighbours(_, _)
Neighbours(id, links) ==
    IF links = <<>> THEN <<>>
    ELSE (IF Head(links).source = id THEN <<Head(links).target>> ELSE <<>>)
         \o (IF Head(links).target = id THEN <<Head(links).source>> ELSE <<>>)
         \o Neighbours(id, Tail(links))

Adjacency(nodes, links) == [id \in NodeIds(nodes) |-> Neighbours(id, links)]

\* adjacency.get(current)?.forEach(neighbor => ...): an unvisited neighbour gets the
\* community id and joins the queue.  st = [communities, queue]
RECURSIVE VisitNeighbours(_, _, _)
VisitNeighbours(neighbours, st, communityId) ==
    IF neighbours = <<>> THEN st
    ELSE LET nb == Head(neighbours)
         IN  VisitNeighbours(Tail(neighbours),
                 IF MapHas(st.communities, nb) THEN st
                 ELSE [communities |-> Append(st.communities, [k |-> nb, v |-> communityId]),
                       queue |-> Append(st.queue, nb)],
                 communityId)

\* while (queue.length > 0) { current = queue.shift(); ... }
RECURSIVE Bfs(_, _, _)
Bfs(st, adjacency, communityId) ==
    IF st.queue = <<>> THEN st.communities
    ELSE LET current == Head(st.queue)
             neighbours == IF current \in DOMAIN adjacency THEN adjacency[current] ELSE <<>>
         IN  Bfs(VisitNeighbours(neighbours,
                                 [communities |-> st.communities, queue |-> Tail(st.queue)],
                                 communityId),
                 adjacency, communityId)

\* nodes.forEach(node => { if (!communities.has(node.id)) { ...; communityId++ } })
RECURSIVE DetectFrom(_, _, _, _)
DetectFrom(nodes, adjacency, communities, communityId) ==
    IF nodes = <<>> THEN communities
    ELSE IF MapHas(communities, Head(nodes).id)
    THEN DetectFrom(Tail(nodes), adjacency, communities, communityId)
    ELSE DetectFrom(Tail(nodes), adjacency,
             Bfs([communities |-> Append(communities,
                                         [k |-> Head(nodes).id, v |-> communityId]),
                  queue |-> <<Head(nodes).id>>],
                 adjacency, communityId),
             communityId + 1)

\* detectCommunities(nodes, links): the Map id -> community id, as its entries
detectCommunities(nodes, links) == DetectFrom(nodes, Adjacency(nodes, links), <<>>, 0)

-----------------------------------------------------------------------------
(* Inputs: the files the views fetch                                       *)

MaxCitationRows == 4
MaxAffilRows == 5
MaxSmallBudget == 3
MaxInflight == 2
AlphaScale == 1000
MaxPointers == 2
ScaleUnit == 100
MaxPan == 1
MaxCoordinate == 600

\* The attempts of the placement loop of the year circles (1000 in the code)
MaxAttempts == 2

Y2019 == <<"2", "0", "1", "9">>
Y2020 == <<"2", "0", "2", "0">>
Y2021 == <<"2", "0", "2", "1">>
Y2022 == <<"2", "0", "2", "2">>

CRow(citing, cited, year, refYear, yearDiff) ==
    [citing_paperid |-> citing, cited_paperid |-> cited, year |-> year,
     ref_year |-> refYear, year_diff |-> yearDiff]

\* Rows of refs_yeshiva_cs_20_25.csv: plain citations, an id with a leading blank, a
\* paper citing itself, a missing id, a year outside 2020-2025, an empty year_diff.
CitationMaster ==
    << CRow(<<"p">>, <<"q">>, Y2021, Y2020, <<"1">>),
       CRow(<<"q">>, <<"r">>, Y2020, Y2020, <<"0">>),
       CRow(<<"p">>, <<"r">>, Y2021, Y2020, <<"1">>),
       CRow(<<" ", "q">>, <<"p">>, Y2022, Y2021, <<"1">>),
       CRow(<<"r">>, <<"r">>, Y2021, Y2021, <<"0">>),
       CRow(<<"p">>, <<" ">>, Y2021, Y2020, <<"1">>),
       CRow(<<"q">>, <<"p">>, Y2019, Y2020, <<"-", "1">>),
       CRow(<<"r">>, <<"q">>, Y2022, Y2021, <<>>),
       CRow(<<" ", "s">>, <<"p">>, Y2022, Y2021, <<"1">>) >>

ARow(paper, author, institution) ==
    [paperid |-> paper, author_position |-> <<"1">>, authorid |-> author,
     institutionid |-> institution]

\* Rows of affils_yeshiva_cs_20_25.csv: paper x by a, b, c; paper y by b, a; an author
\* listed twice on one paper; an author id holding '-'; a row without author.
AffilMaster ==
    << ARow(<<"x">>, <<"a">>, <<"1">>),
       ARow(<<"x">>, <<"b">>, <<"1">>),
       ARow(<<"x">>, <<"c">>, <<"2">>),
       ARow(<<"y">>, <<"b">>, <<"1">>),
       ARow(<<"y">>, <<"a">>, <<"1">>),
       ARow(<<"x">>, <<"a">>, <<"2">>),
       ARow(<<"y">>, <<"a", "-", "b">>, <<"2">>),
       ARow(<<" ", "y">>, <<"c">>, <<"2">>),
       ARow(<<"x">>, <<>>, <<"1">>) >>

Digit(i) == <<"0", "1", "2", "3", "4", "5", "6", "7", "8", "9">>[i + 1]

Numeral(i) == IF i < 10 THEN <<Digit(i)>> ELSE <<Digit(i \div 10), Digit(i % 10)>>

\* A file larger than every budget: a chain of 11 citations over 12 papers ...
BigCitations ==
    [i \in 1..11 |-> CRow(Numeral(i), Numeral(i + 1), Y2021, Y2020, <<"1">>)]

\* ... and 8 authors over 4 papers.
BigAffils ==
    [i \in 1..8 |-> ARow(Numeral(20 + (i % 4)), Numeral(i), <<"1">>)]

\* 28 papers of one author: more papers than 30 % of a budget of 90
ManyPapers ==
    [i \in 1..28 |-> ARow(Numeral(30 + i), <<"1">>, <<"1">>)]

RECURSIVE PickFrom(_, _, _)
PickFrom(master, i, idx) ==
    IF i > Len(master) THEN <<>>
    ELSE (IF i \in idx THEN <<master[i]>> ELSE <<>>) \o PickFrom(master, i + 1, idx)

\* The files made of at most k rows of master, in master's order
Files(master, k) ==
    {[text |-> TRUE, rows |-> PickFrom(master, 1, idx)] :
        idx \in {s \in SUBSET (1..Len(master)) : Cardinality(s) <= k}}

NoText == [text |-> FALSE, rows |-> <<>>]

CitationFiles ==
    Files(CitationMaster, MaxCitationRows) \cup {NoText, [text |-> TRUE, rows |-> BigCitations]}

AffilFiles ==
    Files(AffilMaster, MaxAffilRows)
    \cup {NoText, [text |-> TRUE, rows |-> BigAffils], [text |-> TRUE, rows |-> ManyPapers]}

\* The budgets: around zero, the 10 of the 70/30 scenario, and 90
Budgets == ((0 - 1)..MaxSmallBudget) \cup {10, 90}

Views == {"BaseNetwork", "AuthorCollabNetwork", "EnhancedCitationNetworkV1",
          "EnhancedCitationNetworkV2"}

\* The views whose load effect depends on the maxNodes prop
BudgetViews == {"BaseNetwork", "AuthorCollabNetwork", "EnhancedCitationNetworkV1"}

-----------------------------------------------------------------------------
(* The component: state, load effect, draw effect                          *)

NoData == [nodes |-> <<>>, links |-> <<>>]

NoSim == [created |-> FALSE, drawn |-> FALSE, running |-> FALSE, cleanup |-> FALSE,
          alpha |-> 0, alphaTarget |-> 0, alphaDecay |-> 0, communities |-> <<>>]

\* The graph the view lays out: displayedNodes / displayedLinks where the view keeps
\* them, data where it stores the pruned graph itself.
ShownNodes ==
    IF view \in {"BaseNetwork", "AuthorCollabNetwork"} THEN displayedNodes ELSE data.nodes

ShownLinks ==
    IF view \in {"BaseNetwork", "AuthorCollabNetwork"} THEN displayedLinks ELSE data.links

\* What fetchAndParseData / loadAndProcessCsv computes from the file for budget n.
Build(v, file, n) ==
    CASE v = "AuthorCollabNetwork" -> CollabBuild(file.rows, n)
      [] v = "EnhancedCitationNetworkV2" -> V2Build(file.text, file.rows)
      [] OTHER -> BaseBuild(file.rows, n)

\* null
Null == <<"null">>

\* d3.zoomIdentity, the scale in units of 1 / ScaleUnit
ZoomIdentity == [k |-> ScaleUnit, x |-> 0, y |-> 0]

\* An <svg> element no zoom behaviour was called on: no listener, no __zoom; container
\* is the transform attribute of the group the graph is drawn in.
NoZoom ==
    [bound |-> FALSE, fresh |-> FALSE, transform |-> ZoomIdentity,
     container |-> ZoomIdentity]

\* Nothing under the pointer, nothing highlighted; closure is the highlightedId the
\* handlers of the draw effect captured, orphaned tells that an element was removed
\* while the pointer was on it or while highlightedId was set.
NoHover == [over |-> <<>>, nodes |-> {}, links |-> {}, closure |-> Null,
            orphaned |-> FALSE]

\* The defaults of the networks page
InitialBaseConfig ==
    [title |-> "Paper Citation Network", maxNodes |-> 600, enableZoom |-> TRUE]

InitialAuthorConfig ==
    [title |-> "Author Collaboration Network", maxNodes |-> 800, enableZoom |-> TRUE]

\* The drawing of EnhancedCitationNetworkV1 is 1000 wide and 800 high.
Width == 1000
Height == 800

\* bigCircleRadius
BigCircleRadius == 300

\* Array.from(keys).sort((a, b) => a - b)
RECURSIVE Ascending(_)
Ascending(S) ==
    IF S = {} THEN <<>>
    ELSE With(CHOOSE m \in S : \A k \in S : m <= k, LAMBDA m :
             <<m>> \o Ascending(S \ {m}))

\* yearOrder: the publish years of the drawn nodes, ascending
YearOrder(nodes) == Ascending({nodes[i].publish_year.v : i \in 1..Len(nodes)})

\* yearNodeCounts.get(year)
YearNodeCount(nodes, year) ==
    Cardinality({i \in 1..Len(nodes) : nodes[i].publish_year.v = year})

\* maxNodeCount = Math.max(...counts, 1)
MaxNodeCount(nodes) ==
    With({YearNodeCount(nodes, y) : y \in {nodes[i].publish_year.v : i \in 1..Len(nodes)}}
         \cup {1}, LAMBDA counts : CHOOSE m \in counts : \A c \in counts : c <= m)

\* yearRadiusMap: minSmallRadius + (maxSmallRadius - minSmallRadius) * (count /
\* maxNodeCount), rounded down
SmallRadius(nodes, year) ==
    40 + ((100 - 40) * YearNodeCount(nodes, year)) \div MaxNodeCount(nodes)

\* The placement loop before yearOrder.forEach: order and radii of the years, the
\* index i of the year being placed, the locals of its while loop, and the two
\* collections.
NoPlacement ==
    [order |-> <<>>, radii |-> <<>>, i |-> 1, attempts |-> 0, x |-> 0, y |-> 0,
     validPosition |-> FALSE, yearCenterMap |-> <<>>, placedCenters |-> <<>>]

StartPlacement(nodes) ==
    [NoPlacement EXCEPT
        !.order = YearOrder(nodes),
        !.radii = [j \in 1..Len(YearOrder(nodes)) |->
                      SmallRadius(nodes, YearOrder(nodes)[j])]]

\* The draw effect of EnhancedCitationNetworkV1 places the year circles each time
\* it passes its guard.
PlacementAfter(v, drawn, nodes) ==
    IF v = "EnhancedCitationNetworkV1" /\ drawn THEN StartPlacement(nodes)
    ELSE NoPlacement

\* The state a view is in after construction: the load effect has run to its first
\* await (loading and error are already true and ""), the draw effect has returned
\* at its guard.
InitView(v, file, n) ==
    /\ view = v
    /\ source = file
    /\ maxNodes = n
    /\ mounted = TRUE
    /\ inflight = <<n>>
    /\ loading = TRUE
    /\ error = ""
    /\ data = NoData
    /\ displayedNodes = <<>>
    /\ displayedLinks = <<>>
    /\ institutionIds = <<>>
    /\ sim = NoSim
    /\ drags = {}
    /\ pinned = {}
    /\ layout = <<>>
    /\ enableZoom = TRUE
    /\ zoom = NoZoom
    /\ highlightedId = Null
    /\ hover = NoHover
    /\ placement = NoPlacement
    /\ baseNetworkConfig = InitialBaseConfig
    /\ authorCollabConfig = InitialAuthorConfig

\* The render after a commit mounts the <svg> (svgRef.current is set) only on the
\* main return of the component.
SvgRendered(v, ld, err, d, dn, dl) ==
    /\ ~ld
    /\ err = ""
    /\ CASE v \in {"BaseNetwork", "AuthorCollabNetwork"} -> dn # <<>> /\ dl # <<>>
         [] v = "EnhancedCitationNetworkV2" -> d.nodes # <<>>
         [] OTHER -> TRUE

\* The guard at the top of the draw effect
DrawGuard(v, ld, err, d, dn, dl, inst) ==
    /\ SvgRendered(v, ld, err, d, dn, dl)
    /\ CASE v = "BaseNetwork" -> dn # <<>> /\ dl # <<>> /\ ~ld
         [] v = "AuthorCollabNetwork" -> dn # <<>> /\ dl # <<>> /\ ~ld /\ inst # <<>>
         [] v = "EnhancedCitationNetworkV1" -> ~ld /\ d.nodes # <<>> /\ d.links # <<>>
         [] OTHER -> ~ld /\ d.nodes # <<>>

\* The views whose draw effect returns a cleanup that stops simulationRef.current
HasCleanup(v) == v # "EnhancedCitationNetworkV2"

\* The body of the draw effect.  d3.forceSimulation(...).alphaDecay(...): alpha 1,
\* alphaTarget 0, timer running; V1 ends the chain with .stop().  V2 first runs
\* detectCommunities on the displayed graph and writes node.community from it.
NewSim(v, d) ==
    [created |-> TRUE, drawn |-> TRUE,
     running |-> v # "EnhancedCitationNetworkV1",
     cleanup |-> HasCleanup(v),
     alpha |-> AlphaScale, alphaTarget |-> 0,
     alphaDecay |-> IF v = "EnhancedCitationNetworkV2" THEN 2 ELSE 1,
     communities |-> IF v = "EnhancedCitationNetworkV2"
                     THEN detectCommunities(d.nodes, d.links) ELSE <<>>]

\* return () => { simulationRef.current?.stop(); }
Cleanup(s) == IF s.cleanup THEN [s EXCEPT !.running = FALSE, !.cleanup = FALSE] ELSE s

\* One run of the draw effect after a commit whose dependencies changed: the cleanup
\* of the previous run, then the body.
DrawEffect(s, v, ld, err, d, dn, dl, inst) ==
    IF DrawGuard(v, ld, err, d, dn, dl, inst) THEN NewSim(v, d)
    ELSE [Cleanup(s) EXCEPT !.drawn = FALSE]

\* if (enableZoom) svg.call(zoom): EnhancedCitationNetworkV2 has no such prop and
\* always calls it.
ZoomEnabled(v, ez) == v = "EnhancedCitationNetworkV2" \/ ez

\* .scaleExtent([0.1, 3]) in BaseNetwork and AuthorCollabNetwork, [0.3, 3] in the
\* enhanced views
ScaleExtent(v) ==
    IF v \in {"BaseNetwork", "AuthorCollabNetwork"}
    THEN <<ScaleUnit \div 10, 3 * ScaleUnit>>
    ELSE <<(3 * ScaleUnit) \div 10, 3 * ScaleUnit>>

\* The transform the draw effect gives the container it appends:
\* translate(width / 2, height / 2) in BaseNetwork and AuthorCollabNetwork.
InitialContainer(v) ==
    IF v \in {"BaseNetwork", "AuthorCollabNetwork"}
    THEN [k |-> ScaleUnit, x |-> 475, y |-> 340]
    ELSE ZoomIdentity

\* The <svg> after a commit.  An <svg> that is not rendered is a new element the next
\* time; on the element that stays, svg.call(zoom) installs the listeners and keeps
\* the transform stored in __zoom, and nothing ever removes the listeners.  fresh:
\* the listeners are those of this run of the draw effect.
ZoomAfter(z, v, ez, rendered, drawn) ==
    IF ~rendered THEN NoZoom
    ELSE IF ~drawn THEN z
    ELSE [bound |-> z.bound \/ ZoomEnabled(v, ez), fresh |-> ZoomEnabled(v, ez),
          transform |-> z.transform, container |-> InitialContainer(v)]

\* The hover state after a commit: svg.selectAll("*").remove() and an unrendered
\* <svg> both remove the elements without a mouseout; the handlers of a new run of
\* the draw effect capture the highlightedId of that render.
HoverAfter(h, hid, rendered, drawn) ==
    IF rendered /\ ~drawn THEN h
    ELSE [over |-> <<>>, nodes |-> {}, links |-> {},
          closure |-> IF drawn THEN hid ELSE h.closure,
          orphaned |-> h.over # <<>> \/ hid # Null]

\* d3.forceSimulation(nodes) gives a node without coordinates its place on the
\* phyllotaxis spiral: distinct nodes start at distinct points.
\* fx, fy are <<>> for null and <<c>> for the coordinate c.
InitialPosition(i) == [x |-> 10 * i, y |-> 0, fx |-> <<>>, fy |-> <<>>]

InitialLayout(n) == [i \in 1..n |-> InitialPosition(i)]

Unpin(l) == [i \in 1..Len(l) |-> [l[i] EXCEPT !.fx = <<>>, !.fy = <<>>]]

\* The coordinates after a commit: new node objects have none until a simulation
\* is created on them, the objects that stay keep theirs.
LayoutAfter(l, fresh, n, drawn) ==
    IF fresh \/ l = <<>> THEN (IF drawn THEN InitialLayout(n) ELSE <<>>)
    ELSE Unpin(l)

\* The load effect up to its first await: setLoading(true); setError("").  It runs
\* when the maxNodes prop changes.
MaxNodesChange(n) ==
    /\ mounted
    /\ view \in BudgetViews
    /\ n # maxNodes
    /\ Len(inflight) < MaxInflight
    /\ maxNodes' = n
    /\ inflight' = Append(inflight, n)
    /\ loading' = TRUE
    /\ error' = ""
    /\ sim' = IF loading THEN sim
              ELSE DrawEffect(sim, view, TRUE, "", data, displayedNodes, displayedLinks,
                              institutionIds)
    /\ drags' = IF loading THEN drags ELSE {}
    /\ pinned' = IF loading THEN pinned ELSE {}
    /\ layout' = IF loading THEN layout ELSE Unpin(layout)
    /\ zoom' = NoZoom
    /\ hover' = IF loading THEN hover ELSE HoverAfter(hover, highlightedId, FALSE, FALSE)
    /\ placement' = IF loading THEN placement ELSE NoPlacement
    /\ UNCHANGED <<view, source, mounted, data, displayedNodes, displayedLinks,
                   institutionIds, enableZoom, highlightedId>>

RemoveAt(s, i) == SubSeq(s, 1, i - 1) \o SubSeq(s, i + 1, Len(s))

InstitutionIds(rows) ==
    With(FilterSeq(rows, ValidAffilRow), LAMBDA validData :
        Dedup([i \in 1..Len(validData) |-> Trim(validData[i].institutionid)]))

\* The state the try / catch / finally of the load function leaves, from the outcome
\* of the fetch ("ok", "http": response.ok is false, "network": fetch rejects) and
\* the budget n the load captured: [error, data, dn, dl, inst, redraw, fresh]; redraw
\* tells that a dependency of the draw effect changed, fresh that the node objects
\* are new ones.
Settled(v, fetched, file, n) ==
    With(Build(v, file, n), LAMBDA b :
        LET failed == fetched # "ok" \/ b.threw
            message == IF fetched = "http" THEN "HTTP error"
                       ELSE IF fetched = "network" THEN "Failed to fetch"
                       ELSE IF v = "EnhancedCitationNetworkV2" THEN b.message
                       ELSE "TypeError"
            graph == [nodes |-> b.nodes, links |-> b.links]
            pruned == [nodes |-> b.finalNodes, links |-> b.filteredLinks]
        IN  CASE v = "BaseNetwork" ->
                   IF failed
                   THEN [error |-> message, data |-> NoData, dn |-> <<>>, dl |-> <<>>,
                         inst |-> institutionIds, redraw |-> TRUE,
                         fresh |-> TRUE]
                   ELSE [error |-> error, data |-> graph,
                         dn |-> b.finalNodes, dl |-> b.filteredLinks,
                         inst |-> institutionIds, redraw |-> TRUE,
                         fresh |-> TRUE]
              [] v = "AuthorCollabNetwork" ->
                   IF failed
                   THEN [error |-> message, data |-> data, dn |-> displayedNodes,
                         dl |-> displayedLinks, inst |-> institutionIds,
                         redraw |-> loading, fresh |-> FALSE]
                   ELSE [error |-> error, data |-> graph,
                         dn |-> b.finalNodes, dl |-> b.filteredLinks,
                         inst |-> InstitutionIds(file.rows), redraw |-> TRUE,
                         fresh |-> TRUE]
              [] v = "EnhancedCitationNetworkV1" ->
                   IF failed
                   THEN [error |-> message, data |-> NoData, dn |-> displayedNodes,
                         dl |-> displayedLinks, inst |-> institutionIds, redraw |-> TRUE,
                         fresh |-> TRUE]
                   ELSE [error |-> error, data |-> pruned,
                         dn |-> displayedNodes, dl |-> displayedLinks,
                         inst |-> institutionIds, redraw |-> TRUE,
                         fresh |-> TRUE]
              [] OTHER ->
                   IF failed
                   THEN [error |-> message, data |-> data, dn |-> displayedNodes,
                         dl |-> displayedLinks, inst |-> institutionIds,
                         redraw |-> loading, fresh |-> FALSE]
                   ELSE [error |-> error, data |-> pruned,
                         dn |-> displayedNodes, dl |-> displayedLinks,
                         inst |-> institutionIds, redraw |-> TRUE,
                         fresh |-> TRUE])

\* The rest of a load once its fetch settles, with the commit and the draw effect it
\* causes.  After an unmount React drops the state updates.
LoadSettles(i, fetched) ==
    /\ i \in 1..Len(inflight)
    /\ inflight' = RemoveAt(inflight, i)
    /\ IF mounted
       THEN \E s \in {Settled(view, fetched, source, inflight[i])} :
                /\ error' = s.error
                /\ data' = s.data
                /\ displayedNodes' = s.dn
                /\ displayedLinks' = s.dl
                /\ institutionIds' = s.inst
                /\ loading' = FALSE
                /\ sim' = IF s.redraw
                          THEN DrawEffect(sim, view, FALSE, s.error, s.data, s.dn, s.dl,
                                          s.inst)
                          ELSE sim
                /\ drags' = IF s.redraw THEN {} ELSE drags
                /\ pinned' = IF s.redraw THEN {} ELSE pinned
                /\ \E rendered \in {SvgRendered(view, FALSE, s.error, s.data, s.dn, s.dl)},
                      drawn \in {s.redraw /\ DrawGuard(view, FALSE, s.error, s.data,
                                                       s.dn, s.dl, s.inst)} :
                      /\ zoom' = ZoomAfter(zoom, view, enableZoom, rendered, drawn)
                      /\ hover' = HoverAfter(hover, highlightedId, rendered, drawn)
                      /\ layout' = IF s.redraw
                                    THEN LayoutAfter(layout, s.fresh,
                                             IF view \in {"BaseNetwork", "AuthorCollabNetwork"}
                                             THEN Len(s.dn) ELSE Len(s.data.nodes),
                                             drawn)
                                    ELSE layout
                      /\ placement' = IF s.redraw
                                       THEN PlacementAfter(view, drawn, s.data.nodes)
                                       ELSE placement
       ELSE UNCHANGED <<error, data, displayedNodes, displayedLinks, institutionIds,
                        loading, sim, drags, pinned, layout, zoom, hover, placement>>
    /\ UNCHANGED <<view, maxNodes, source, mounted, enableZoom, highlightedId>>

FetchOk == (\E i \in 1..Len(inflight) : LoadSettles(i, "ok")) /\ UNCHANGED pageVars

FetchFails ==
    /\ \E i \in 1..Len(inflight), f \in {"http", "network"} : LoadSettles(i, f)
    /\ UNCHANGED pageVars

\* The component unmounts: React runs the cleanup of the draw effect, if it has one.
\* A gesture in progress stays active: d3-drag waits for the release of the pointer
\* on the window, not on the removed node.
Unmount ==
    /\ mounted
    /\ mounted' = FALSE
    /\ sim' = [Cleanup(sim) EXCEPT !.drawn = FALSE]
    /\ zoom' = NoZoom
    /\ hover' = HoverAfter(hover, highlightedId, FALSE, FALSE)
    /\ UNCHANGED <<placement, view, maxNodes, source, inflight, loading, error,
                   data,
                   displayedNodes, displayedLinks, institutionIds, drags, pinned,
                   layout, enableZoom, highlightedId>>
    /\ UNCHANGED pageVars

-----------------------------------------------------------------------------
(* The force simulation: alpha in units of 1 / AlphaScale                  *)

\* d3-force's alphaMin, 0.001
AlphaMin == AlphaScale \div 1000

\* simulation.alphaTarget(0.5) in BaseNetwork and AuthorCollabNetwork, 0.3 in the
\* enhanced views
DragAlphaTarget(v) ==
    IF v \in {"BaseNetwork", "AuthorCollabNetwork"} THEN (5 * AlphaScale) \div 10
    ELSE (3 * AlphaScale) \div 10

\* alpha += (alphaTarget - alpha) * alphaDecay, alphaDecay in hundredths
NextAlphaBroken(s) ==
    Min(2 * AlphaScale, s.alpha + ((s.alpha - s.alphaTarget) * s.alphaDecay) \div 100 + 1)

NextAlpha(s) == s.alpha + ((s.alphaTarget - s.alpha) * s.alphaDecay) \div 100

\* The position step of simulation.tick(): a node with fx, fy is put there.  The
\* forces on the other nodes are not computed: a free node rests.
Stepped(node) ==
    IF node.fx = <<>> THEN node ELSE [node EXCEPT !.x = node.fx[1], !.y = node.fy[1]]

\* One timer step of the simulation: tick(), the "tick" listener, and the stop below
\* alphaMin.  The timer of a simulation nobody stopped fires whether or not the
\* component is still mounted.
Tick ==
    /\ sim.running
    /\ sim' = [sim EXCEPT !.alpha = NextAlpha(sim),
                          !.running = ~(NextAlpha(sim) < AlphaMin)]
    /\ layout' = [i \in 1..Len(layout) |-> Stepped(layout[i])]
    /\ UNCHANGED <<placement, view, maxNodes, source, mounted, inflight, loading,
                   error, data,
                   displayedNodes, displayedLinks, institutionIds, drags, pinned,
                   enableZoom, zoom, highlightedId, hover>>
    /\ UNCHANGED pageVars

\* What the drag handlers add to event.x, event.y: EnhancedCitationNetworkV1 writes
\* d.fx = event.x + centerX, d.fy = event.y + centerY, the other views the event's
\* coordinates themselves.
DragOffset(v) ==
    IF v = "EnhancedCitationNetworkV1" THEN [x |-> Width \div 2, y |-> Height \div 2]
    ELSE [x |-> 0, y |-> 0]

\* d.fx, d.fy as the handlers of view v set them for the event at (ex, ey)
PinnedAt(v, node, ex, ey) ==
    [node EXCEPT !.fx = <<ex + DragOffset(v).x>>, !.fy = <<ey + DragOffset(v).y>>]

\* drag "start" on node i: event.active counts the gestures already active, and
\* event.x, event.y are the coordinates of the subject, the node.
DragStart(i) ==
    /\ mounted /\ sim.drawn
    /\ i \in 1..Len(ShownNodes)
    /\ i \notin drags
    /\ Cardinality(drags) < MaxPointers
    /\ layout[i].x + DragOffset(view).x <= MaxCoordinate
    /\ layout[i].y + DragOffset(view).y <= MaxCoordinate
    /\ sim' = IF drags = {}
              THEN [sim EXCEPT !.alphaTarget = DragAlphaTarget(view), !.running = TRUE]
              ELSE sim
    /\ drags' = drags \cup {i}
    /\ pinned' = pinned \cup {i}
    /\ layout' = [layout EXCEPT ![i] = PinnedAt(view, layout[i], layout[i].x, layout[i].y)]
    /\ UNCHANGED <<placement, view, maxNodes, source, mounted, inflight, loading,
                   error, data,
                   displayedNodes, displayedLinks, institutionIds,
                   enableZoom, zoom, highlightedId, hover>>
    /\ UNCHANGED pageVars

\* drag "drag" on node i, the event at p: the handler writes fx, fy only.
DragMove(i, p) ==
    /\ i \in drags
    /\ layout' = [layout EXCEPT ![i] = PinnedAt(view, layout[i], p.x, p.y)]
    /\ UNCHANGED <<placement, view, maxNodes, source, mounted, inflight, loading,
                   error, data,
                   displayedNodes, displayedLinks, institutionIds, sim, drags, pinned,
                   enableZoom, zoom, highlightedId, hover>>
    /\ UNCHANGED pageVars

\* drag "end" on node i: event.active counts the gestures still active.
DragEnd(i) ==
    /\ i \in drags
    /\ sim' = IF drags = {i} THEN [sim EXCEPT !.alphaTarget = 0] ELSE sim
    /\ drags' = drags \ {i}
    /\ pinned' = pinned \ {i}
    /\ layout' = [layout EXCEPT ![i].fx = <<>>, ![i].fy = <<>>]
    /\ UNCHANGED <<placement, view, maxNodes, source, mounted, inflight, loading,
                   error, data,
                   displayedNodes, displayedLinks, institutionIds,
                   enableZoom, zoom, highlightedId, hover>>
    /\ UNCHANGED pageVars

\* The places the pointer takes a dragged node to
DragPoints == {[x |-> 25, y |-> 15], [x |-> 5, y |-> 35]}

DragStarts == \E i \in 1..Len(ShownNodes) : DragStart(i)

DragMoves == \E i \in drags, p \in DragPoints : DragMove(i, p)

DragEnds == \E i \in drags : DragEnd(i)

-----------------------------------------------------------------------------
(* Hover in EnhancedCitationNetworkV1: the elements drawn in a highlight style *)

\* validLinks / linkDataWithPaths: the links of data whose two ends have a position,
\* by their index in data.links
ValidLinks(d) ==
    {l \in 1..Len(d.links) :
        d.links[l].source \in NodeIds(d.nodes) /\ d.links[l].target \in NodeIds(d.nodes)}

\* g.selectAll('.node-circle').filter(node => ids.has(node.id))
CirclesOf(d, ids) == {j \in 1..Len(d.nodes) : d.nodes[j].id \in ids}

\* links.filter(link => link.sourceId === d.id || link.targetId === d.id)
LinksOf(d, id) ==
    {l \in ValidLinks(d) : d.links[l].source = id \/ d.links[l].target = id}

\* Only the targets of the links that leave the node (not what the code does)
ConnectedTargets(d, id) ==
    {d.links[l].target : l \in {k \in ValidLinks(d) : d.links[k].source = id}}

\* connectedNodeIds
ConnectedNodeIds(d, id) ==
    {d.links[l].target : l \in {k \in ValidLinks(d) : d.links[k].source = id}}
    \cup {d.links[l].source : l \in {k \in ValidLinks(d) : d.links[k].target = id}}

\* A mouse event on a drawn element of EnhancedCitationNetworkV1 that leaves
\* highlightedId at hid and the hover state at h
HoverEvent(hid, h) ==
    /\ highlightedId' = hid
    /\ hover' = h
    /\ UNCHANGED <<placement, view, maxNodes, source, mounted, inflight, loading,
                   error, data,
                   displayedNodes, displayedLinks, institutionIds, sim, drags, pinned,
                   layout, enableZoom, zoom>>
    /\ UNCHANGED pageVars

\* The pointer may enter an element: the view is drawn and the pointer is on none.
CanEnter ==
    /\ view = "EnhancedCitationNetworkV1"
    /\ mounted /\ sim.drawn
    /\ hover.over = <<>>

\* mouseover of the circle of node i
NodeEnter(i) ==
    /\ CanEnter
    /\ i \in 1..Len(data.nodes)
    /\ HoverEvent(data.nodes[i].id,
                  [hover EXCEPT
                      !.over = <<"node", i>>,
                      !.nodes = (@ \cup {i})
                                \cup CirclesOf(data, ConnectedNodeIds(data, data.nodes[i].id)),
                      !.links = @ \cup LinksOf(data, data.nodes[i].id)])

\* mouseout of the circle of node i
NodeLeave(i) ==
    /\ hover.over = <<"node", i>>
    /\ HoverEvent(Null,
                  [hover EXCEPT
                      !.over = <<>>,
                      !.nodes = (@ \ {i})
                                \ CirclesOf(data, ConnectedNodeIds(data, data.nodes[i].id)),
                      !.links = @ \ LinksOf(data, data.nodes[i].id)])

\* mouseover of the path of link l
LinkEnter(l) ==
    /\ CanEnter
    /\ l \in ValidLinks(data)
    /\ HoverEvent(highlightedId,
                  [hover EXCEPT
                      !.over = <<"link", l>>,
                      !.links = @ \cup {l},
                      !.nodes = @ \cup CirclesOf(data, {data.links[l].source,
                                                       data.links[l].target})])

\* mouseout of the path of link l: the circles are restored if (!highlightedId),
\* the highlightedId of the render whose draw effect made the handler.
LinkLeave(l) ==
    /\ hover.over = <<"link", l>>
    /\ HoverEvent(highlightedId,
                  [hover EXCEPT
                      !.over = <<>>,
                      !.links = @ \ {l},
                      !.nodes = IF hover.closure = Null
                                THEN @ \ CirclesOf(data, {data.links[l].source,
                                                          data.links[l].target})
                                ELSE @])

-----------------------------------------------------------------------------
(* The year circles of EnhancedCitationNetworkV1: the placement loop       *)

\* 1000 * Math.cos and 1000 * Math.sin, rounded, for the angles the model uses:
\* the multiples of 30 degrees
Cos1000(deg) ==
    CASE deg % 360 = 0 -> 1000
      [] deg % 360 \in {30, 330} -> 866
      [] deg % 360 \in {60, 300} -> 500
      [] deg % 360 \in {90, 270} -> 0
      [] deg % 360 \in {120, 240} -> 0 - 500
      [] deg % 360 \in {150, 210} -> 0 - 866
      [] deg % 360 = 180 -> 0 - 1000

Sin1000(deg) == Cos1000(deg + 270)

\* centerX + distance * Math.cos(angle), centerY + distance * Math.sin(angle)
PointAt(deg, distance) ==
    [x |-> Width \div 2 + (distance * Cos1000(deg)) \div 1000,
     y |-> Height \div 2 + (distance * Sin1000(deg)) \div 1000]

\* A test that takes every centre (not what the code does)
EveryCentreFits(x, y, smallRadius, placedCenters) == TRUE

\* placedCenters.every(placed => distanceBetween >= smallRadius + placed.r + 10)
CentreFits(x, y, smallRadius, placedCenters) ==
    \A j \in 1..Len(placedCenters) :
        With(placedCenters[j], LAMBDA placed :
            (x - placed.x) * (x - placed.x) + (y - placed.y) * (y - placed.y)
                >= (smallRadius + placed.r + 10) * (smallRadius + placed.r + 10))

\* The placement has a year left to place.
Placing ==
    /\ view = "EnhancedCitationNetworkV1" /\ mounted /\ sim.drawn
    /\ placement.i <= Len(placement.order)

\* A step of the placement that leaves it at pl
PlacementStep(pl) ==
    /\ placement' = pl
    /\ UNCHANGED <<view, maxNodes, source, mounted, inflight, loading, error, data,
                   displayedNodes, displayedLinks, institutionIds, sim, drags, pinned,
                   layout, enableZoom, zoom, highlightedId, hover>>
    /\ UNCHANGED pageVars

\* One pass of while (attempts < 1000 && !validPosition), Math.random() giving the
\* angle deg and tenths / 10 of the greatest distance
PlaceAttempt(deg, tenths) ==
    /\ Placing
    /\ placement.attempts < MaxAttempts
    /\ ~placement.validPosition
    /\ \E smallRadius \in {placement.radii[placement.i]} :
       \E at \in {PointAt(deg, (tenths * (BigCircleRadius - smallRadius - 20)) \div 10)} :
            PlacementStep([placement EXCEPT
                !.attempts = @ + 1,
                !.x = at.x,
                !.y = at.y,
                !.validPosition = CentreFits(at.x, at.y, smallRadius,
                                             placement.placedCenters)])

\* The centre of the else branch: the angle index / length * 2 * Math.PI, the
\* distance bigCircleRadius - smallRadius - 20
EvenPosition(index, length, smallRadius) ==
    PointAt((360 * index) \div length, BigCircleRadius - smallRadius - 20)

\* After the while loop: yearCenterMap.set and placedCenters.push with the sampled
\* centre if it is valid, else with the even position; then the next year.
PlaceCommit ==
    /\ Placing
    /\ placement.validPosition \/ ~(placement.attempts < MaxAttempts)
    /\ \E smallRadius \in {placement.radii[placement.i]} :
       \E at \in {IF placement.validPosition THEN [x |-> placement.x, y |-> placement.y]
                  ELSE EvenPosition(placement.i - 1, Len(placement.order), smallRadius)} :
            PlacementStep([placement EXCEPT
                !.i = @ + 1,
                !.attempts = 0,
                !.x = 0,
                !.y = 0,
                !.validPosition = FALSE,
                !.yearCenterMap = Append(@, [k |-> placement.order[placement.i],
                                             x |-> at.x, y |-> at.y]),
                !.placedCenters = Append(@, [x |-> at.x, y |-> at.y,
                                             r |-> smallRadius])])

\* What Math.random() gives the model: three directions, and the centre, half and
\* nine tenths of the greatest distance
PlaceAttempts == \E deg \in {0, 90, 180}, tenths \in {0, 5, 9} : PlaceAttempt(deg, tenths)

-----------------------------------------------------------------------------
(* Zoom and pan: d3-zoom on the <svg>                                       *)

\* The scale without the extent (not what d3-zoom does)
FreeScale(v, k) == k

\* d3-zoom's scale: Math.max(scaleExtent[0], Math.min(scaleExtent[1], k))
ClampScale(v, k) == Max(ScaleExtent(v)[1], Min(ScaleExtent(v)[2], k))

\* A zoom event with the transform t: the listener stores t in svg.__zoom and the
\* "zoom" handler writes it to the group.  BaseNetwork and AuthorCollabNetwork select
\* the group by its class; the enhanced views write to the g of the run of the draw
\* effect that installed the listener, which is the displayed group only if that
\* run is the last one.
ZoomEvent(t) ==
    /\ mounted
    /\ zoom.bound
    /\ zoom' = [zoom EXCEPT !.transform = t,
                            !.container =
                                IF view \in {"BaseNetwork", "AuthorCollabNetwork"}
                                   \/ zoom.fresh
                                THEN t ELSE zoom.container]
    /\ UNCHANGED <<placement, view, maxNodes, source, mounted, inflight, loading,
                   error, data,
                   displayedNodes, displayedLinks, institutionIds, sim, drags, pinned,
                   layout, enableZoom, highlightedId, hover>>
    /\ UNCHANGED pageVars

\* A wheel or double-click gesture that multiplies the scale by num / den, the
\* pointer on the origin of the group: the translation stays.
Wheel(num, den) ==
    ZoomEvent([zoom.transform EXCEPT
                  !.k = ClampScale(view, (zoom.transform.k * num) \div den)])

\* A pan by (dx, dy): translateExtent is unbounded.
Pan(dx, dy) ==
    /\ zoom.transform.x + dx \in (0 - MaxPan)..MaxPan
    /\ zoom.transform.y + dy \in (0 - MaxPan)..MaxPan
    /\ ZoomEvent([zoom.transform EXCEPT !.x = @ + dx, !.y = @ + dy])

Wheels == \E f \in {<<1, 2>>, <<2, 1>>, <<1, 5>>} : Wheel(f[1], f[2])

Pans == \E d \in {<<1, 0>>, <<0 - 1, 0>>, <<0, 1>>, <<0, 0 - 1>>} : Pan(d[1], d[2])

-----------------------------------------------------------------------------
(* The networks page: the controls of BaseNetwork and AuthorCollabNetwork   *)

\* The enableZoom prop changes: the draw effect has it among its dependencies and
\* runs again on the same node objects; the load effect does not run.
EnableZoomChange(b) ==
    /\ mounted
    /\ view # "EnhancedCitationNetworkV2"
    /\ b # enableZoom
    /\ enableZoom' = b
    /\ \E rendered \in {SvgRendered(view, loading, error, data, displayedNodes,
                                    displayedLinks)},
          drawn \in {DrawGuard(view, loading, error, data, displayedNodes,
                               displayedLinks, institutionIds)} :
            /\ sim' = DrawEffect(sim, view, loading, error, data, displayedNodes,
                                 displayedLinks, institutionIds)
            /\ zoom' = ZoomAfter(zoom, view, b, rendered, drawn)
            /\ hover' = HoverAfter(hover, highlightedId, rendered, drawn)
            /\ placement' = PlacementAfter(view, drawn, data.nodes)
    /\ UNCHANGED <<view, maxNodes, source, mounted, inflight, loading,
                   error, data,
                   displayedNodes, displayedLinks, institutionIds, drags, pinned,
                   layout, highlightedId>>

\* a || b on numbers: NaN and 0 are falsy
NumOrElse(num, fallback) == IF num.nan \/ num.v = 0 THEN fallback ELSE num.v

\* The value without the clamp (not what the code does)
UnclampedMaxNodes(text, fallback) == NumOrElse(ParseInt(text), fallback)

\* Math.max(10, Math.min(1000, parseInt(e.target.value) || 600)), 800 for the author
\* network.  parseInt without a radix reads the texts of InputTexts as
\* parseInt(text, 10) does: none has a 0x prefix or a + sign.
ClampMaxNodes(text, fallback) ==
    Max(10, Min(1000, NumOrElse(ParseInt(text), fallback)))

\* The view of each of the two configurations
PageViews == {"BaseNetwork", "AuthorCollabNetwork"}

FallbackMaxNodes(v) == IF v = "BaseNetwork" THEN 600 ELSE 800

\* updateBaseNetworkConfig / updateAuthorNetworkConfig with one field:
\* set(prev => ({ ...prev, ...config }))
UpdateConfig(v, field, value) ==
    IF v = "BaseNetwork"
    THEN /\ baseNetworkConfig' = [baseNetworkConfig EXCEPT ![field] = value]
         /\ UNCHANGED authorCollabConfig
    ELSE /\ authorCollabConfig' = [authorCollabConfig EXCEPT ![field] = value]
         /\ UNCHANGED baseNetworkConfig

\* onChange of a Max Nodes input, and the render that hands the new maxNodes to the
\* view of that configuration
EditMaxNodes(v, text) ==
    \E n \in {ClampMaxNodes(text, FallbackMaxNodes(v))} :
        /\ mounted
        /\ UpdateConfig(v, "maxNodes", n)
        /\ IF v = view /\ n # maxNodes THEN MaxNodesChange(n) ELSE UNCHANGED viewVars

\* onChange of an Enable Zoom checkbox
EditEnableZoom(v, checked) ==
    /\ mounted
    /\ UpdateConfig(v, "enableZoom", checked)
    /\ IF v = view /\ checked # enableZoom THEN EnableZoomChange(checked)
       ELSE UNCHANGED viewVars

\* What a user leaves in a Max Nodes input: nothing, zero, a negative number, a
\* fraction, letters, numbers below, inside and above the range
InputTexts ==
    {<<>>, <<"0">>, <<"-", "5">>, <<"1", "2", ".", "7">>, <<"a", "b", "c">>, <<"7">>,
     <<"9", "9", "9">>, <<"1", "0", "0", "1">>}

EditsMaxNodes == \E v \in PageViews, text \in InputTexts : EditMaxNodes(v, text)

EditsEnableZoom == \E v \in PageViews, checked \in BOOLEAN : EditEnableZoom(v, checked)

-----------------------------------------------------------------------------
(* Specifications                                                          *)

FilesOf(v) == IF v = "AuthorCollabNetwork" THEN AffilFiles ELSE CitationFiles

BudgetsOf(v) == IF v \in BudgetViews THEN Budgets ELSE {0}

\* SpecBuild: every file and budget, one load.
InitBuild ==
    \E v \in Views : \E file \in FilesOf(v), n \in BudgetsOf(v) : InitView(v, file, n)

NextBuild == FetchOk \/ FetchFails

SpecBuild == InitBuild /\ [][NextBuild]_vars

\* A few files for the lifecycle: no text, a header only, rows that are all invalid,
\* and files with a graph.
SmallFile(v, k) ==
    LET master == IF v = "AuthorCollabNetwork" THEN AffilMaster ELSE CitationMaster
    IN  [text |-> TRUE, rows |-> SubSeq(master, 1, k)]

LifecycleFiles(v) ==
    {NoText, SmallFile(v, 0), SmallFile(v, 2), SmallFile(v, 3),
     [text |-> TRUE,
      rows |-> IF v = "AuthorCollabNetwork" THEN <<AffilMaster[9]>>
               ELSE <<CitationMaster[6]>>]}

LifecycleBudgets(v) == IF v \in BudgetViews THEN {1, 2, 10} ELSE {0}

\* Spec: the lifecycle of a view, budget changes and overlapping loads included.
Init ==
    \E v \in Views : \E file \in LifecycleFiles(v), n \in LifecycleBudgets(v) :
        InitView(v, file, n)

BudgetChanges ==
    (\E n \in LifecycleBudgets(view) : MaxNodesChange(n)) /\ UNCHANGED pageVars

Next == BudgetChanges \/ FetchOk \/ FetchFails \/ Unmount

Spec == Init /\ [][Next]_vars

\* SpecSim: one drawable file per view, the simulation and the drag gestures.
InitSim ==
    \E v \in Views : InitView(v, SmallFile(v, 3), IF v \in BudgetViews THEN 10 ELSE 0)

NextSim == FetchOk \/ Tick \/ DragStarts \/ DragEnds \/ Unmount

SpecSim == InitSim /\ [][NextSim]_vars

SpecSimFair == SpecSim /\ WF_vars(Tick)

\* SpecDrag: one small drawable file per view, and whole drag gestures: start, pointer
\* moves, end, with the simulation's timer in between.
InitDrag ==
    \E v \in Views : InitView(v, SmallFile(v, 1), IF v \in BudgetViews THEN 10 ELSE 0)

NextDrag == FetchOk \/ Tick \/ DragStarts \/ DragMoves \/ DragEnds

SpecDrag == InitDrag /\ [][NextDrag]_vars

\* SpecZoom: every view on a drawable file, zoom and pan gestures between drag
\* gestures and changes of enableZoom.
ZoomToggles == (\E b \in BOOLEAN : EnableZoomChange(b)) /\ UNCHANGED pageVars

NextZoom == FetchOk \/ Wheels \/ Pans \/ ZoomToggles \/ DragStarts \/ DragEnds

SpecZoom == InitDrag /\ [][NextZoom]_vars

\* SpecHover: EnhancedCitationNetworkV1 on files with a path, parallel links and a
\* link from a node to itself; the pointer enters and leaves nodes and links, and
\* the view loads and draws again in between.
InitHover ==
    \E k \in {2, 5}, n \in {2, 10} :
        InitView("EnhancedCitationNetworkV1", SmallFile("EnhancedCitationNetworkV1", k), n)

NextHover ==
    \/ FetchOk
    \/ BudgetChanges
    \/ \E i \in 1..Len(data.nodes) : NodeEnter(i)
    \/ \E i \in 1..Len(data.nodes) : NodeLeave(i)
    \/ \E l \in 1..Len(data.links) : LinkEnter(l)
    \/ \E l \in 1..Len(data.links) : LinkLeave(l)

SpecHover == InitHover /\ [][NextHover]_vars

\* SpecPlace: EnhancedCitationNetworkV1 on every file, and the placement of its
\* year circles attempt by attempt.
InitPlace ==
    \E file \in CitationFiles : InitView("EnhancedCitationNetworkV1", file, 10)

NextPlace == FetchOk \/ PlaceAttempts \/ PlaceCommit

SpecPlace == InitPlace /\ [][NextPlace]_vars

\* SpecPage: the networks page with one of its two views, the edits of both
\* configurations and the loads they start.
InitPage ==
    \E v \in PageViews : InitView(v, SmallFile(v, 2), FallbackMaxNodes(v))

NextPage == EditsMaxNodes \/ EditsEnableZoom \/ FetchOk \/ FetchFails

SpecPage == InitPage /\ [][NextPage]_vars

-----------------------------------------------------------------------------
(* Properties                                                              *)

\* The load of the view has succeeded and its result is committed.
Loaded == mounted /\ ~loading /\ error = ""

\* The rows of the file that pass the validation of the view
ValidRows ==
    IF view = "AuthorCollabNetwork" THEN FilterSeq(source.rows, ValidAffilRow)
    ELSE IF view = "EnhancedCitationNetworkV2" THEN FilterSeq(source.rows, ValidV2Row)
    ELSE FilterSeq(source.rows, ValidCitationRow)

\* The graph before pruning: the state of BaseNetwork and AuthorCollabNetwork keeps
\* it in data, the enhanced views keep only the pruned graph.
FullGraph ==
    IF view \in {"BaseNetwork", "AuthorCollabNetwork"} THEN data
    ELSE With(Build(view, source, maxNodes), LAMBDA b :
             [nodes |-> b.nodes, links |-> b.links])

EndpointsIn(links, nodes) ==
    \A i \in 1..Len(links) :
        links[i].source \in NodeIds(nodes) /\ links[i].target \in NodeIds(nodes)

NodesWithId(nodes, id) == {i \in 1..Len(nodes) : nodes[i].id = id}

\* C1: after a successful load, every edge of the full graph of the view has a
\* source id and a target id that are ids of nodes of that graph.
NoDanglingEdges == Loaded => EndpointsIn(FullGraph.links, FullGraph.nodes)

\* C2: after a successful load, every identifier of the valid rows has exactly one
\* node; a paper's citation_count is the number of valid rows citing it, an author's
\* paper_count the number of distinct papers of the valid rows naming the author;
\* the file of the single row p -> q (2021, 2020, 1) gives the nodes p (0), q (1)
\* and the one edge p -> q with year_diff 1.
OneNodePerId ==
    Loaded =>
        With(FullGraph, LAMBDA g : With(ValidRows, LAMBDA valid :
            IF view = "AuthorCollabNetwork"
            THEN \A a \in {Trim(valid[i].authorid) : i \in 1..Len(valid)} :
                    /\ Cardinality(NodesWithId(g.nodes, AuthorKey(a))) = 1
                    /\ \A n \in NodesWithId(g.nodes, AuthorKey(a)) :
                         g.nodes[n].paper_count =
                             Cardinality({Trim(valid[i].paperid) :
                                 i \in {j \in 1..Len(valid) : Trim(valid[j].authorid) = a}})
            ELSE /\ \A id \in Range(RowIds(valid)) :
                    /\ Cardinality(NodesWithId(g.nodes, id)) = 1
                    /\ \A n \in NodesWithId(g.nodes, id) :
                         g.nodes[n].citation_count =
                             Cardinality({j \in 1..Len(valid) :
                                 Trim(valid[j].cited_paperid) = id})
                 /\ source.rows = <<CitationMaster[1]>> =>
                        /\ Len(g.nodes) = 2 /\ Len(g.links) = 1
                        /\ g.nodes[1].id = <<"p">> /\ g.nodes[1].citation_count = 0
                        /\ g.nodes[2].id = <<"q">> /\ g.nodes[2].citation_count = 1
                        /\ g.links[1].source = <<"p">> /\ g.links[1].target = <<"q">>
                        /\ g.links[1].year_diff = Num(1)))

\* C3 as stated: after a successful load with budget maxNodes, whatever integer it
\* is, at most maxNodes nodes are displayed and every displayed edge has both
\* endpoints displayed.
PrunedWithinAnyBudget ==
    (Loaded /\ view \in BudgetViews) =>
        /\ Len(ShownNodes) <= maxNodes
        /\ EndpointsIn(ShownLinks, ShownNodes)

\* C3: after a successful load with budget maxNodes, every displayed edge has both
\* endpoints displayed, and when maxNodes >= 1 at most maxNodes nodes are displayed.
PrunedWithinBudget ==
    (Loaded /\ view \in BudgetViews) =>
        /\ maxNodes >= 1 => Len(ShownNodes) <= maxNodes
        /\ EndpointsIn(ShownLinks, ShownNodes)

\* BaseNetwork has pruned a larger graph to exactly maxNodes nodes and dropped edges.
PrunedToBudget ==
    /\ Loaded /\ view = "BaseNetwork"
    /\ Len(data.nodes) > maxNodes
    /\ Len(displayedNodes) = maxNodes
    /\ displayedLinks # <<>>
    /\ Len(displayedLinks) < Len(data.links)

\* The communities the draw effect of EnhancedCitationNetworkV2 has computed
Communities == sim.communities

DisplayedIds == NodeIds(data.nodes)

GroupOf(id) == Communities[MapIndex(Communities, id)].v

Adjacent(u, v) ==
    \E i \in 1..Len(data.links) :
        \/ data.links[i].source = u /\ data.links[i].target = v
        \/ data.links[i].source = v /\ data.links[i].target = u

\* The ids joined to one of S by a path of displayed edges, taken as undirected
RECURSIVE Component(_)
Component(S) ==
    LET T == S \cup {v \in DisplayedIds : \E u \in S : Adjacent(u, v)}
    IN  IF T = S THEN S ELSE Component(T)

Isolated(u) == \A v \in DisplayedIds : ~Adjacent(u, v)

\* C4: once EnhancedCitationNetworkV2 has drawn, detectCommunities has given every
\* displayed node id exactly one group id; two ids have the same group id exactly
\* when a path of displayed edges, taken as undirected, joins them; a node without
\* incident edge shares its group with no other id.
CommunitiesAreComponents ==
    (view = "EnhancedCitationNetworkV2" /\ sim.drawn) =>
        /\ \A id \in DisplayedIds :
             Cardinality({i \in 1..Len(Communities) : Communities[i].k = id}) = 1
        /\ \A u, v \in DisplayedIds : (GroupOf(u) = GroupOf(v)) <=> (v \in Component({u}))
        /\ \A u \in DisplayedIds :
             Isolated(u) => \A v \in DisplayedIds \ {u} : GroupOf(v) # GroupOf(u)

\* A drawn graph with two ids in one group that no edge joins directly, and an
\* isolated node.
PathAndIsolatedNode ==
    /\ view = "EnhancedCitationNetworkV2" /\ sim.drawn
    /\ \E u, v \in DisplayedIds : u # v /\ GroupOf(u) = GroupOf(v) /\ ~Adjacent(u, v)
    /\ \E w \in DisplayedIds : Isolated(w)

\* C5: a tick with alphaTarget 0 never raises alpha; alphaTarget leaves 0 only when
\* the first drag gesture starts, and alpha rises on a tick only while a gesture is
\* active; a running simulation with no active gesture stops, or a gesture starts.
AlphaCools ==
    /\ [][(Tick /\ sim.alphaTarget = 0) => sim'.alpha <= sim.alpha]_vars
    /\ [][(sim'.alphaTarget > sim.alphaTarget) => (drags = {} /\ drags' # {})]_vars
    /\ [][(Tick /\ sim'.alpha > sim.alpha) => drags # {}]_vars
    /\ (sim.running /\ drags = {}) ~> (~sim.running \/ drags # {})

\* A simulation that has cooled below alphaMin and stopped in a mounted view
CooledAndStopped ==
    mounted /\ sim.created /\ ~sim.running /\ sim.alpha < AlphaMin /\ drags = {}

\* The unordered pairs of distinct authors of one paper in the valid rows
CoAuthorPairs ==
    With(ValidRows, LAMBDA valid :
        {pair \in SUBSET {Trim(valid[i].authorid) : i \in 1..Len(valid)} :
            /\ Cardinality(pair) = 2
            /\ \E i, j \in 1..Len(valid) :
                 /\ Trim(valid[i].paperid) = Trim(valid[j].paperid)
                 /\ pair = {Trim(valid[i].authorid), Trim(valid[j].authorid)}})

SharedPapers(pair) ==
    With(ValidRows, LAMBDA valid :
        {paper \in {Trim(valid[i].paperid) : i \in 1..Len(valid)} :
            \A a \in pair : \E i \in 1..Len(valid) :
                Trim(valid[i].paperid) = paper /\ Trim(valid[i].authorid) = a})

IsCollabLink(link) == link.type = "author-author"

\* C6: in AuthorCollabNetwork every pair of co-authors has exactly one author-author
\* edge, whose collaboration_count is the number of papers the two share and whose
\* paper_ids are those papers, and every author-author edge is the edge of a pair.
OneEdgePerPair ==
    (Loaded /\ view = "AuthorCollabNetwork") =>
        With(FilterSeq(data.links, IsCollabLink), LAMBDA edges :
            /\ \A pair \in CoAuthorPairs :
                 /\ Cardinality({i \in 1..Len(edges) :
                        {edges[i].source, edges[i].target}
                            = {AuthorKey(a) : a \in pair}}) = 1
                 /\ \A i \in 1..Len(edges) :
                        {edges[i].source, edges[i].target} = {AuthorKey(a) : a \in pair}
                        => /\ edges[i].collaboration_count = Cardinality(SharedPapers(pair))
                           /\ Range(edges[i].paper_ids) = SharedPapers(pair)
            /\ \A i \in 1..Len(edges) :
                 \E pair \in CoAuthorPairs :
                     {edges[i].source, edges[i].target} = {AuthorKey(a) : a \in pair})

\* C7: in AuthorCollabNetwork with a budget maxNodes >= 0 the displayed authors are
\* min(floor(0.7 maxNodes), authors) and the displayed papers
\* min(maxNodes - floor(0.7 maxNodes), papers).
QuotaSplit ==
    (Loaded /\ view = "AuthorCollabNetwork" /\ maxNodes >= 0) =>
        /\ Count(displayedNodes, IsAuthorNode)
               = Min((7 * maxNodes) \div 10, Count(data.nodes, IsAuthorNode))
        /\ Count(displayedNodes, IsPaperNode)
               = Min(maxNodes - (7 * maxNodes) \div 10, Count(data.nodes, IsPaperNode))

\* C8: when the file has no text or no valid row, a settled load leaves an error
\* message and neither nodes nor edges displayed or drawn.
EmptySourceIsError ==
    (mounted /\ ~loading /\ (~source.text \/ ValidRows = <<>>)) =>
        /\ error # ""
        /\ ShownNodes = <<>> /\ ShownLinks = <<>>
        /\ ~sim.drawn

NoLoop(links) == \A i \in 1..Len(links) : links[i].source # links[i].target

\* C9: after a successful load no edge of the full graph and no displayed edge has
\* the same id as source and target.
NoSelfLoops == Loaded => (NoLoop(FullGraph.links) /\ NoLoop(ShownLinks))

\* C10: once the view is unmounted its simulation is stopped, so that no tick of it
\* follows.
StoppedAfterUnmount == ~mounted => ~sim.running

\* The view shows its error panel: the load has settled with a message.
InErrorState == mounted /\ ~loading /\ error # ""

\* C11: once a mounted view is in the error state, no step other than the unmount
\* takes it out of it: it is not loading again and its message is not cleared.
ErrorIsTerminal ==
    [][(InErrorState /\ mounted') => (~loading' /\ error' # "")]_vars

\* C12: in BaseNetwork and AuthorCollabNetwork, while a load the load effect started
\* has not settled, the loading flag is true and no simulation of the draw effect
\* is running.
NothingRunsDuringFetch ==
    (mounted /\ view \in {"BaseNetwork", "AuthorCollabNetwork"} /\ inflight # <<>>) =>
        (loading /\ ~sim.running)

\* A number that is an integer of the range lo..hi
Within(num, lo, hi) == ~num.nan /\ num.v >= lo /\ num.v <= hi

\* The rule of the specification for a citation row: both ids non-empty after
\* trimming, year and ref_year integers of the year window of the code, year_diff an
\* integer of -5..10.
Plausible(row) ==
    /\ Truthy(row.citing_paperid) /\ Trim(row.citing_paperid) # <<>>
    /\ Truthy(row.cited_paperid) /\ Trim(row.cited_paperid) # <<>>
    /\ Truthy(row.year) /\ Within(ParseInt(Trim(row.year)), 2020, 2025)
    /\ Truthy(row.ref_year) /\ Within(ParseInt(Trim(row.ref_year)), 2020, 2025)
    /\ Truthy(row.year_diff) /\ Within(ParseInt(Trim(row.year_diff)), 0 - 5, 10)

\* C14: in the citation views with the year window a row is accepted exactly when it
\* is plausible, and every edge built from the accepted rows carries years of the
\* window and a year_diff of -5..10.
AcceptedIffPlausible ==
    (Loaded /\ view \in {"BaseNetwork", "EnhancedCitationNetworkV1"}) =>
        /\ \A i \in 1..Len(source.rows) :
             ValidCitationRow(source.rows[i]) <=> Plausible(source.rows[i])
        /\ \A i \in 1..Len(FullGraph.links) :
             /\ Within(FullGraph.links[i].citing_year, 2020, 2025)
             /\ Within(FullGraph.links[i].cited_year, 2020, 2025)
             /\ Within(FullGraph.links[i].year_diff, 0 - 5, 10)

\* The importance of a node: citations of a paper of the citation graph, papers of an
\* author, authors of a paper of the collaboration graph.
Importance(node) ==
    IF view # "AuthorCollabNetwork" THEN node.citation_count
    ELSE IF node.type = "author" THEN node.paper_count
    ELSE node.author_count

\* Nodes that compete for the same slots
SameKind(a, b) == view = "AuthorCollabNetwork" => a.type = b.type

\* C15: in the views pruned by maxNodes every displayed node is at least as important
\* as every node of its kind left out, and of two equally important nodes of a kind
\* the displayed one comes first in the insertion order of the full graph.
KeepsMostImportant ==
    (Loaded /\ view \in BudgetViews) =>
        With(FullGraph.nodes, LAMBDA nodes :
            \A i, j \in 1..Len(nodes) :
                (/\ nodes[i].id \in NodeIds(ShownNodes)
                 /\ nodes[j].id \notin NodeIds(ShownNodes)
                 /\ SameKind(nodes[i], nodes[j]))
                => \/ Importance(nodes[i]) > Importance(nodes[j])
                   \/ Importance(nodes[i]) = Importance(nodes[j]) /\ i < j)

\* Pruning has split two equally important nodes: the earlier one is displayed.
TieBrokenByOrder ==
    /\ Loaded /\ view \in BudgetViews
    /\ \E i, j \in 1..Len(FullGraph.nodes) :
         /\ FullGraph.nodes[i].id \in NodeIds(ShownNodes)
         /\ FullGraph.nodes[j].id \notin NodeIds(ShownNodes)
         /\ SameKind(FullGraph.nodes[i], FullGraph.nodes[j])
         /\ Importance(FullGraph.nodes[i]) = Importance(FullGraph.nodes[j])
    /\ \E i, j \in 1..Len(FullGraph.nodes) :
         /\ FullGraph.nodes[i].id \in NodeIds(ShownNodes)
         /\ FullGraph.nodes[j].id \notin NodeIds(ShownNodes)
         /\ Importance(FullGraph.nodes[i]) > Importance(FullGraph.nodes[j])

\* slice(0, Math.min(maxNodes, length)) selects nothing of a list of that length
SliceSelectsNone(n, length) == n = 0 \/ n <= 0 - length

\* The first node of the full graph among those of the highest citation count
TopNode(nodes) ==
    nodes[CHOOSE m \in 1..Len(nodes) :
            /\ \A j \in 1..Len(nodes) : nodes[m].citation_count >= nodes[j].citation_count
            /\ \A j \in 1..(m - 1) : nodes[j].citation_count < nodes[m].citation_count]

IsolatedNodesDrawn == (Loaded /\ ShownNodes # <<>>) => sim.drawn


\* The coordinates a pointer position p pins a node to
PointerPins(p) == <<<<p.x>>, <<p.y>>>>

\* C16: in every view a drag start pins the node at its current position (fx = x,
\* fy = y) and raises alphaTarget above 0 on the first active gesture; a drag move
\* sets fx, fy to the pointer position and leaves x, y alone; a drag end clears
\* fx, fy and the last one resets alphaTarget to 0.  Hence with no drag in progress
\* no node is pinned and alphaTarget is 0.
DragPinsWhereTheNodeIs ==
    [][/\ \A i \in 1..Len(layout) :
            /\ (i \notin drags /\ i \in drags') =>
                    /\ layout'[i].fx = <<layout[i].x>>
                    /\ layout'[i].fy = <<layout[i].y>>
                    /\ sim'.alphaTarget > 0
            /\ (i \in drags /\ i \in drags' /\ layout'[i].fx # layout[i].fx) =>
                    /\ \E p \in DragPoints : <<layout'[i].fx, layout'[i].fy>> = PointerPins(p)
                    /\ layout'[i].x = layout[i].x
                    /\ layout'[i].y = layout[i].y
            /\ (i \in drags /\ i \notin drags') =>
                    /\ layout'[i].fx = <<>>
                    /\ layout'[i].fy = <<>>
                    /\ drags' = {} => sim'.alphaTarget = 0
       /\ drags' = {} =>
            /\ \A i \in 1..Len(layout') : layout'[i].fx = <<>> /\ layout'[i].fy = <<>>
            /\ sim'.alphaTarget = 0]_vars


ConfigInRange(config) == config.maxNodes \in 10..1000

\* At most one field of the configuration differs
OneFieldEdited(before, after) ==
    \E f \in DOMAIN before : \A g \in DOMAIN before \ {f} : after[g] = before[g]

\* C13: after any sequence of edits of the two Max Nodes inputs (empty, zero,
\* negative, fractional or non-numeric text included) the maxNodes of each
\* configuration is an integer of [10, 1000], and an edit of one configuration
\* leaves the other configuration and the other fields of the edited one unchanged.
MaxNodesStaysInRange ==
    [][/\ ConfigInRange(baseNetworkConfig) /\ ConfigInRange(authorCollabConfig)
       /\ ConfigInRange(baseNetworkConfig') /\ ConfigInRange(authorCollabConfig')
       /\ baseNetworkConfig' # baseNetworkConfig =>
            /\ authorCollabConfig' = authorCollabConfig
            /\ OneFieldEdited(baseNetworkConfig, baseNetworkConfig')
       /\ authorCollabConfig' # authorCollabConfig =>
            /\ baseNetworkConfig' = baseNetworkConfig
            /\ OneFieldEdited(authorCollabConfig, authorCollabConfig')]_vars

\* Both clamps have acted: no text of InputTexts reads as 10 or as 1000.
ClampedAtBothEnds ==
    /\ baseNetworkConfig.maxNodes = 10
    /\ authorCollabConfig.maxNodes = 1000
    /\ ~baseNetworkConfig.enableZoom
    /\ authorCollabConfig.enableZoom


\* The extent the views are configured with: [0.1, 3] in BaseNetwork and
\* AuthorCollabNetwork, [0.3, 3] in the enhanced views, in units of 1 / ScaleUnit
InExtent(k) ==
    IF view \in {"BaseNetwork", "AuthorCollabNetwork"}
    THEN k >= ScaleUnit \div 10 /\ k <= 3 * ScaleUnit
    ELSE k >= (3 * ScaleUnit) \div 10 /\ k <= 3 * ScaleUnit

\* C17: after any sequence of wheel and pan events the scale of the transform is
\* inside the extent of the view, and a zoom event (a step that changes the
\* transform) leaves the coordinates and pins of every node and the simulation,
\* its alpha included, unchanged.
ZoomActsOnTransformOnly ==
    [][/\ InExtent(zoom.transform.k)
       /\ InExtent(zoom'.transform.k)
       /\ zoom'.transform # zoom.transform =>
            /\ layout' = layout
            /\ sim' = sim
            /\ pinned' = pinned]_vars

\* Zoomed out to the lower limit and panned, a node pinned by a drag in progress
\* and the simulation running
ZoomedOutWhileDragging ==
    /\ view = "EnhancedCitationNetworkV2"
    /\ zoom.transform.k = (3 * ScaleUnit) \div 10
    /\ zoom.transform.x # 0
    /\ drags # {}
    /\ sim.running


\* The displayed links with node i as an end, and what they join it to
IncidentTo(i) ==
    {l \in 1..Len(data.links) :
        data.nodes[i].id \in {data.links[l].source, data.links[l].target}}

OtherEnds(i) ==
    {j \in 1..Len(data.nodes) :
        \E l \in IncidentTo(i) :
            {data.nodes[i].id, data.nodes[j].id} = {data.links[l].source, data.links[l].target}}

EndsOf(l) ==
    {j \in 1..Len(data.nodes) : data.nodes[j].id \in {data.links[l].source, data.links[l].target}}

\* Every pointer-enter so far was followed by its pointer-leave, or is the one of
\* the element under the pointer.
EventsMatched == ~hover.orphaned

Mentions(id) ==
    {r \in 1..Len(ValidRows) :
        id \in {Trim(ValidRows[r].citing_paperid), Trim(ValidRows[r].cited_paperid)}}

\* The year field of the earliest row that mentions id: year if the paper is the
\* citing one there, ref_year if it is the cited one
FirstMentionYear(id) ==
    With(CHOOSE r \in Mentions(id) : \A q \in Mentions(id) : r <= q, LAMBDA first :
        IF Trim(ValidRows[first].citing_paperid) = id
        THEN ParseInt(Trim(ValidRows[first].year))
        ELSE ParseInt(Trim(ValidRows[first].ref_year)))

\* publish_year of a node as a number
YearOfNode(node) ==
    IF view = "EnhancedCitationNetworkV2"
    THEN (IF node.publish_year.num THEN Num(node.publish_year.v)
          ELSE ParseInt(node.publish_year.s))
    ELSE node.publish_year

TimesCited(id) ==
    Cardinality({r \in 1..Len(ValidRows) : Trim(ValidRows[r].cited_paperid) = id})

\* C21: in the citation views the publish_year of a paper is the year field of the
\* earliest row in input order that mentions it (year if it is the citing paper of
\* that row, ref_year if the cited one), and its citation_count is the number of
\* rows that cite it.
FirstMentionFixesYear ==
    (Loaded /\ view # "AuthorCollabNetwork") =>
        \A i \in 1..Len(FullGraph.nodes) :
            With(FullGraph.nodes[i], LAMBDA node :
                /\ Mentions(node.id) # {}
                /\ YearOfNode(node) = FirstMentionYear(node.id)
                /\ node.citation_count = TimesCited(node.id))

\* dx * dx + dy * dy for the centres a and b
SquaredDistance(a, b) == (a.x - b.x) * (a.x - b.x) + (a.y - b.y) * (a.y - b.y)

\* Every year placed so far has exactly one centre and one entry of placedCenters,
\* in the order of the years.
OneCentrePerYear(pl) ==
    /\ Len(pl.yearCenterMap) = pl.i - 1
    /\ Len(pl.placedCenters) = pl.i - 1
    /\ \A j \in 1..(pl.i - 1) :
            /\ pl.yearCenterMap[j].k = pl.order[j]
            /\ \A k \in 1..(pl.i - 1) : pl.order[k] = pl.order[j] => k = j

\* What is left of the loop: the years to place, each with its attempts and its
\* commit
StepsLeft(pl) ==
    (Len(pl.order) + 1 - pl.i) * (MaxAttempts + 1)
        - (IF pl.validPosition THEN MaxAttempts ELSE pl.attempts)

\* C22: the placement of the year circles terminates and is total.  Each step of
\* the loop brings its end nearer and a year gets at most the allowed number of
\* attempts; the centre committed for a year is the sampled one if it keeps the
\* distance radius + radius + 10 to every circle placed before, and else the even
\* position index / count * 2 pi at the distance bigCircleRadius - radius - 20;
\* every year placed has exactly one centre and one entry of placedCenters.
PlacementIsTotal ==
    [][placement' # placement /\ placement.order # <<>> /\ placement'.order # <<>> =>
        /\ StepsLeft(placement') < StepsLeft(placement)
        /\ StepsLeft(placement') >= 0
        /\ placement'.attempts <= MaxAttempts
        /\ OneCentrePerYear(placement')
        /\ placement'.i > Len(placement'.order) =>
                Len(placement'.yearCenterMap) = Len(placement'.order)
        /\ placement'.i = placement.i + 1 =>
                With(placement'.placedCenters[placement.i], LAMBDA new :
                    \/ /\ new.x = placement.x /\ new.y = placement.y
                       /\ \A j \in 1..(placement.i - 1) :
                            With(placement.placedCenters[j], LAMBDA old :
                                SquaredDistance(new, old)
                                    >= (new.r + old.r + 10) * (new.r + old.r + 10))
                    \/ /\ placement.attempts = MaxAttempts
                       /\ \E j \in 1..(placement.i - 1) :
                            With(placement.placedCenters[j], LAMBDA old :
                                SquaredDistance([x |-> placement.x, y |-> placement.y], old)
                                    < (new.r + old.r + 10) * (new.r + old.r + 10))
                       /\ [x |-> new.x, y |-> new.y]
                            = PointAt((360 * (placement.i - 1)) \div Len(placement.order),
                                      BigCircleRadius - new.r - 20))]_vars

\* Three years are placed, one by a sample that fits and one at its even position
\* after the attempts ran out.
PlacedBySampleAndByFallback ==
    /\ Len(placement.order) = 3
    /\ placement.i = 4
    /\ \E j \in 2..3 :
            [x |-> placement.placedCenters[j].x, y |-> placement.placedCenters[j].y]
                = PointAt((360 * (j - 1)) \div 3,
                          BigCircleRadius - placement.placedCenters[j].r - 20)
    /\ \E j \in 2..3 :
            [x |-> placement.placedCenters[j].x, y |-> placement.placedCenters[j].y]
                # PointAt((360 * (j - 1)) \div 3,
                          BigCircleRadius - placement.placedCenters[j].r - 20)

\* C23: the circles of the year groups never overlap, for any number of years and
\* any outcome of the sampling: two distinct circles are at least the sum of their
\* radii apart, and every circle lies inside the outer circle of radius 300.
YearCirclesDisjoint ==
    \A j \in 1..Len(placement.placedCenters) :
        With(placement.placedCenters[j], LAMBDA c :
            /\ c.r <= BigCircleRadius
            /\ SquaredDistance(c, [x |-> Width \div 2, y |-> Height \div 2])
                    <= (BigCircleRadius - c.r) * (BigCircleRadius - c.r)
            /\ \A k \in 1..Len(placement.placedCenters) :
                    k # j => With(placement.placedCenters[k], LAMBDA d :
                                SquaredDistance(c, d) >= (c.r + d.r) * (c.r + d.r)))

\* The rows of the file that are well-formed: plausible citation rows, and for the
\* collaboration graph the rows its filter takes
WellFormedRows ==
    IF view = "AuthorCollabNetwork" THEN FilterSeq(source.rows, ValidAffilRow)
    ELSE FilterSeq(source.rows, Plausible)

\* The fetch of the committed load has delivered the text of the file.
FetchDelivered ==
    mounted /\ ~loading /\ inflight = <<>> /\ error \notin {"HTTP error", "Failed to fetch"}

\* C24: a malformed row is dropped on its own.  When the fetch has delivered a file
\* with at least one well-formed row, the view is ready without an error, and its
\* graph is the graph of the well-formed rows alone.
MalformedRowsAreDropped ==
    (FetchDelivered /\ source.text /\ WellFormedRows # <<>>) =>
        /\ error = ""
        /\ With(Build(view, [text |-> TRUE, rows |-> WellFormedRows], maxNodes), LAMBDA b :
              /\ ~b.threw
              /\ FullGraph.nodes = b.nodes
              /\ FullGraph.links = b.links)

\* The nodes of a list that a pruned list does not hold
DroppedFrom(nodes, kept) == {j \in 1..Len(nodes) : ~Contains(kept, nodes[j])}

\* C25: the pruning of EnhancedCitationNetworkV2 to a fixed budget keeps the top
\* nodes by citation_count: for every budget smaller than the graph, every kept
\* node has at least the citation_count of every dropped node, and the kept edges
\* are exactly the edges with both ends kept.
FixedBudgetKeepsTopK ==
    (Loaded /\ view = "EnhancedCitationNetworkV2") =>
        \A budget \in 1..(Len(FullGraph.nodes) - 1) :
            With(V2LimitNodes(FullGraph.nodes, budget), LAMBDA kept :
                /\ \A i \in 1..Len(kept) : \A j \in DroppedFrom(FullGraph.nodes, kept) :
                        kept[i].citation_count >= FullGraph.nodes[j].citation_count
                /\ \A l \in 1..Len(FullGraph.links) :
                        Contains(V2LimitLinks(FullGraph.links, kept), FullGraph.links[l])
                            <=> /\ FullGraph.links[l].source \in NodeIds(kept)
                                /\ FullGraph.links[l].target \in NodeIds(kept))

\* C26: overlapping loads leave no stale result.  Once no load of BaseNetwork or
\* AuthorCollabNetwork is in flight and the last one has succeeded, the displayed
\* nodes and edges are those computed for the current maxNodes, and no more nodes
\* are displayed than the current maxNodes.
LatestBudgetDisplayed ==
    (Loaded /\ view \in {"BaseNetwork", "AuthorCollabNetwork"} /\ inflight = <<>>) =>
        /\ With(Build(view, source, maxNodes), LAMBDA b :
              /\ displayedNodes = b.finalNodes
              /\ displayedLinks = b.filteredLinks)
        /\ Len(displayedNodes) <= maxNodes

\* C27: enableZoom governs zooming at all times.  In BaseNetwork and
\* AuthorCollabNetwork, after any toggles and redraws, a step taken while
\* enableZoom is false (a wheel or pan gesture among them) leaves the transform of
\* the network container unchanged.
ZoomOffMeansNoZoom ==
    [][(/\ view \in {"BaseNetwork", "AuthorCollabNetwork"}
        /\ mounted /\ sim.drawn
        /\ ~enableZoom /\ ~enableZoom') =>
            zoom'.container = zoom.container]_vars

ListsAuthor(paper, authorKey) ==
    With(ValidRows, LAMBDA valid :
        \E i \in 1..Len(valid) :
            Trim(valid[i].paperid) = paper /\ AuthorKey(Trim(valid[i].authorid)) = authorKey)

\* C28: in AuthorCollabNetwork, for every author-author edge (rows repeating an
\* author on a paper included) collaboration_count is the number of distinct
\* paper ids in paper_ids and at least 1, and every paper in paper_ids lists both
\* endpoint authors.
CollaborationCountIsPapers ==
    (Loaded /\ view = "AuthorCollabNetwork") =>
        With(FilterSeq(data.links, IsCollabLink), LAMBDA edges :
            \A i \in 1..Len(edges) :
                /\ edges[i].collaboration_count = Cardinality(Range(edges[i].paper_ids))
                /\ edges[i].collaboration_count >= 1
                /\ \A paper \in Range(edges[i].paper_ids) :
                       /\ ListsAuthor(paper, edges[i].source)
                       /\ ListsAuthor(paper, edges[i].target))

SortedPair(a1, a2) == IF StrLess(a2, a1) THEN <<a2, a1>> ELSE <<a1, a2>>

AuthorIds == With(ValidRows, LAMBDA valid : {Trim(valid[i].authorid) : i \in 1..Len(valid)})

\* C29: the collaboration pair key is injective and round-trips: two distinct
\* pairs of co-authors never get the same key, and splitting the key of a pair
\* gives back the two ids it was built from, ids holding '-' included.
PairKeyRoundTrips ==
    (Loaded /\ view = "AuthorCollabNetwork") =>
        \A a1, a2 \in AuthorIds :
            {a1, a2} \in CoAuthorPairs =>
                /\ Split(PairKey(a1, a2)) = SortedPair(a1, a2)
                /\ \A b1, b2 \in AuthorIds :
                       ({b1, b2} \in CoAuthorPairs /\ PairKey(b1, b2) = PairKey(a1, a2))
                           => {b1, b2} = {a1, a2}

ShowsError == error # ""

ShowsGraph ==
    DrawGuard(view, loading, error, data, displayedNodes, displayedLinks, institutionIds)

ShowsFallback ==
    ~loading /\ error = ""
    /\ ~SvgRendered(view, loading, error, data, displayedNodes, displayedLinks)

OneOutcome ==
    Cardinality({k \in 1..3 : \/ k = 1 /\ ShowsError
                              \/ k = 2 /\ ShowsGraph
                              \/ k = 3 /\ ShowsFallback}) = 1

\* A load of the mounted view ends in this step
LoadEnds == mounted /\ Len(inflight') < Len(inflight)

\* The load that ends threw while it processed the text it fetched
ProcessingThrew ==
    \E i \in 1..Len(inflight) :
        inflight' = RemoveAt(inflight, i) /\ Build(view, source, inflight[i]).threw

\* C30: every run of a view's load function, once its fetch settles, ends with
\* loading = false and with exactly one of a graph to display, the empty-data
\* fallback or a non-empty error message, and the error message is non-empty after
\* the load if and only if that load failed.
LoadEndsWithOneOutcome ==
    [][LoadEnds =>
          /\ ~loading'
          /\ view # "EnhancedCitationNetworkV1" => OneOutcome'
          /\ (FetchFails \/ ProcessingThrew) => error' # ""
          /\ (FetchOk /\ ~ProcessingThrew) => error' = ""]_vars

====
